---- MODULE Spec2Model ----
(***************************************************************************)
(* Verification model of the Trestle ETL pipeline core:                    *)
(*   - trestle_etl/odata_client.py    (TokenCache, ODataClient)            *)
(*   - trestle_etl/data_transformer.py (DataTransformer)                   *)
(*   - trestle_etl/incremental_sync.py (IncrementalSyncManager)            *)
(*   - trestle_etl/mysql_loader.py     (sync log of MySQLLoader)           *)
(*   - trestle_etl/main.py             (ETLOrchestrator.run)               *)
(* Texts (messages, bodies, URLs) are sequences of tokens; a Python        *)
(* Optional is a sequence of length at most one.                           *)
(***************************************************************************)
EXTENDS Integers, Sequences, FiniteSets, TLC

VARIABLES
    now,               \* datetime.now(), in seconds
    token_cache,       \* ODataClient._token_cache: [token, expires_at]
    quota_info,        \* ODataClient._quota_info
    last_quota_check,  \* ODataClient._last_quota_check
    max_retries,       \* ODataClient.max_retries
    pc,                \* where the client's caller stands
    req,               \* frame of _execute_with_retry: [url, attempt]
    page,              \* frame of execute_paginated_query
    result,            \* what the last finished call returned or raised
    obs,               \* observation of the current call (GETs, POSTs, sleeps)
    auths,             \* the last two authenticate() calls of the consumer
    field_name_cache,  \* DataTransformer._field_name_cache
    duplicate_keys,    \* DataTransformer._duplicate_keys
    batch,             \* frame of transform_batch
    batch_result,      \* what the last finished transform_batch returned or raised
    pcT,               \* where the transformer's caller stands
    dup_calls,         \* the detect_duplicate calls made since the cache was cleared
    api_calls_count,   \* IncrementalSyncManager._api_calls_count
    sync,              \* frame of execute_batched_sync
    sync_result,       \* what the last finished execute_batched_sync returned or raised
    pcS,               \* where the sync manager's caller stands
    batch_requests,    \* the last create_batch_requests call and what it returned
    etl_sync_log,      \* rows of the table etl_sync_log
    orch,              \* frame of ETLOrchestrator.run
    runs,              \* the finished runs, each with the watermark read after it
    calls              \* log of the direct calls of the helper functions: op, args, out

client_vars == <<now, token_cache, quota_info, last_quota_check, max_retries,
                 pc, req, page, result, obs, auths>>

transformer_vars == <<field_name_cache, duplicate_keys, batch, batch_result, pcT,
                      dup_calls>>

sync_vars == <<api_calls_count, sync, sync_result, pcS, batch_requests>>

run_vars == <<etl_sync_log, orch, runs>>

call_vars == <<calls>>

vars == <<client_vars, transformer_vars, sync_vars, run_vars, call_vars>>

(***************************************************************************)
(* Bounds of the model                                                     *)
(***************************************************************************)
MaxRetriesBound == 2      \* max_retries ranges over 0..MaxRetriesBound
MaxTicks == 3             \* the clock advances at most this many times
TickSeconds == 100        \* seconds per clock step
MaxPages == 3             \* the server holds at most this many pages
MaxPagesArg == 2          \* max_pages ranges over None and 0..MaxPagesArg
MaxCyclePages == 3        \* pages followed at most on a server whose links cycle
PageRetries == 1          \* max_retries of the client that paginates

(***************************************************************************)
(* Program constants                                                       *)
(***************************************************************************)
BufferSeconds == 300      \* timedelta(minutes=5)
DefaultExpiresIn == 28800 \* token_data.get('expires_in', 28800)
TopLimit == 1000          \* if top is not None and top > 1000: top = 1000

Nothing == <<>>
Some(x) == <<x>>

RECURSIVE Flatten(_)
Flatten(ss) == IF ss = <<>> THEN <<>> ELSE Head(ss) \o Flatten(Tail(ss))

EmptyDict == [k \in {} |-> Nothing]

(***************************************************************************)
(* TokenCache                                                              *)
(***************************************************************************)
EmptyCache == [token |-> Nothing, expires_at |-> Nothing]

get_token_no_buffer(cache, t) ==
    IF cache.token # Nothing /\ cache.token[1] # "" /\ cache.expires_at # Nothing
       /\ t < cache.expires_at[1]
    THEN cache.token ELSE Nothing

\* TokenCache.get_token at time t

get_token(cache, t) ==
    IF cache.token # Nothing /\ cache.token[1] # "" /\ cache.expires_at # Nothing
       /\ t < cache.expires_at[1] - BufferSeconds
    THEN cache.token ELSE Nothing

set_token_no_lifetime(tok, expires_in, t) ==
    [token |-> Some(tok), expires_at |-> Some(t)]

\* TokenCache.set_token at time t
set_token(tok, expires_in, t) ==
    [token |-> Some(tok), expires_at |-> Some(t + expires_in)]

(***************************************************************************)
(* The token endpoint: what one POST can answer                            *)
(***************************************************************************)
PostResponses ==
    {[kind |-> "http", status |-> 200, json |-> TRUE,
      access_token |-> Some("tokA"), expires_in |-> Nothing, text |-> <<>>],
     [kind |-> "http", status |-> 200, json |-> TRUE,
      access_token |-> Some("tokB"),
      expires_in |-> Some(BufferSeconds + 2 * TickSeconds), text |-> <<>>],
     [kind |-> "http", status |-> 200, json |-> TRUE,
      access_token |-> Some(""), expires_in |-> Nothing, text |-> <<>>],
     [kind |-> "http", status |-> 200, json |-> TRUE,
      access_token |-> Nothing, expires_in |-> Nothing, text |-> <<>>],
     [kind |-> "http", status |-> 200, json |-> FALSE,
      access_token |-> Nothing, expires_in |-> Nothing, text |-> <<"<html>">>],
     [kind |-> "http", status |-> 401, json |-> TRUE,
      access_token |-> Nothing, expires_in |-> Nothing, text |-> <<>>],
     [kind |-> "http", status |-> 400, json |-> TRUE,
      access_token |-> Nothing, expires_in |-> Nothing, text |-> <<"invalid_scope">>],
     [kind |-> "http", status |-> 503, json |-> FALSE,
      access_token |-> Nothing, expires_in |-> Nothing, text |-> <<"unavailable">>],
     [kind |-> "transport", status |-> 0, json |-> FALSE,
      access_token |-> Nothing, expires_in |-> Nothing, text |-> <<"timed out">>]}

clear(cache) == EmptyCache

AuthFailClearing(cache, msg) ==
    [ok |-> FALSE, token |-> "", cache |-> clear(cache), posts |-> 1, msg |-> msg,
     expires_in |-> 0]

\* raise AuthenticationError(...): one POST was made, set_token was not reached
AuthFail(cache, msg) ==
    [ok |-> FALSE, token |-> "", cache |-> cache, posts |-> 1, msg |-> msg,
     expires_in |-> 0]

\* authenticate() once the cache has missed: one POST and its classification
authenticate_post(cache, t, resp) ==
    IF resp.kind = "transport"
    THEN AuthFail(cache, <<"Network error during authentication:">> \o resp.text)
    ELSE IF resp.status = 200
    THEN IF ~resp.json
         THEN AuthFail(cache, <<"Invalid JSON response during authentication:">>)
         ELSE IF resp.access_token = Nothing \/ resp.access_token[1] = ""
         THEN AuthFail(cache, <<"No access token in response">>)
         ELSE LET expires_in == IF resp.expires_in = Nothing THEN DefaultExpiresIn
                                ELSE resp.expires_in[1]
              IN  [ok |-> TRUE, token |-> resp.access_token[1],
                   cache |-> set_token(resp.access_token[1], expires_in, t),
                   posts |-> 1, msg |-> <<>>, expires_in |-> expires_in]
    ELSE IF resp.status = 401
    THEN AuthFail(cache, <<"Invalid client credentials">>)
    ELSE IF resp.status = 400
    THEN IF resp.text # <<>> /\ ~resp.json
         THEN AuthFail(cache, <<"Invalid JSON response during authentication:">>)
         ELSE AuthFail(cache, <<"Authentication failed:">>
                              \o (IF resp.text = <<>> THEN <<"Bad request">> ELSE resp.text))
    ELSE AuthFail(cache, <<"Authentication failed with status", ToString(resp.status), ":">>
                         \o resp.text)

\* authenticate(): every outcome it can have from this cache at time t
authenticate(cache, t) ==
    LET cached_token == get_token(cache, t) IN
    IF cached_token # Nothing
    THEN {[ok |-> TRUE, token |-> cached_token[1], cache |-> cache,
           posts |-> 0, msg |-> <<>>, expires_in |-> 0]}
    ELSE {authenticate_post(cache, t, resp) : resp \in PostResponses}

(***************************************************************************)
(* build_odata_url and the text of a URL                                   *)
(***************************************************************************)
\* urllib.parse.quote_plus on one token
quote_plus(tok) ==
    CASE tok = "$filter"  -> "%24filter"
      [] tok = "$select"  -> "%24select"
      [] tok = "$top"     -> "%24top"
      [] tok = "$skip"    -> "%24skip"
      [] tok = "$orderby" -> "%24orderby"
      [] tok = " "        -> "+"
      [] tok = ","        -> "%2C"
      [] tok = "'"        -> "%27"
      [] tok = "&"        -> "%26"
      [] tok = "="        -> "%3D"
      [] tok = "+"        -> "%2B"
      [] OTHER            -> tok

quote_text(txt) == [i \in DOMAIN txt |-> quote_plus(txt[i])]

RECURSIVE join_comma(_)
join_comma(fields) ==
    IF fields = <<>> THEN <<>>
    ELSE IF Len(fields) = 1 THEN <<fields[1]>>
    ELSE <<fields[1], ",">> \o join_comma(Tail(fields))

\* a variant that tests the truth value of top and skip, so that 0 counts as absent
build_odata_url_truthy(entity_set, filter_expr, select_fields, top, skip, orderby) ==
    [base |-> entity_set,
     query |->
        (IF filter_expr # Nothing /\ filter_expr[1] # <<>>
         THEN << <<quote_plus("$filter"), quote_text(filter_expr[1])>> >> ELSE <<>>)
        \o (IF select_fields # Nothing /\ select_fields[1] # <<>>
            THEN << <<quote_plus("$select"), quote_text(join_comma(select_fields[1]))>> >>
            ELSE <<>>)
        \o (IF top # Nothing /\ top[1] # 0
            THEN << <<quote_plus("$top"), <<ToString(top[1])>> >> >> ELSE <<>>)
        \o (IF skip # Nothing /\ skip[1] # 0
            THEN << <<quote_plus("$skip"), <<ToString(skip[1])>> >> >> ELSE <<>>)
        \o (IF orderby # Nothing /\ orderby[1] # <<>>
            THEN << <<quote_plus("$orderby"), quote_text(orderby[1])>> >> ELSE <<>>)]

\* a URL is [base, query]; query is the urlencoded list of <<key, value text>>
build_odata_url(entity_set, filter_expr, select_fields, top, skip, orderby) ==
    LET p1 == IF filter_expr # Nothing /\ filter_expr[1] # <<>>
              THEN << <<quote_plus("$filter"), quote_text(filter_expr[1])>> >> ELSE <<>>
        p2 == IF select_fields # Nothing /\ select_fields[1] # <<>>
              THEN << <<quote_plus("$select"), quote_text(join_comma(select_fields[1]))>> >>
              ELSE <<>>
        p3 == IF top # Nothing
              THEN << <<quote_plus("$top"), <<ToString(top[1])>> >> >> ELSE <<>>
        p4 == IF skip # Nothing
              THEN << <<quote_plus("$skip"), <<ToString(skip[1])>> >> >> ELSE <<>>
        p5 == IF orderby # Nothing /\ orderby[1] # <<>>
              THEN << <<quote_plus("$orderby"), quote_text(orderby[1])>> >> ELSE <<>>
    IN  [base |-> entity_set, query |-> p1 \o p2 \o p3 \o p4 \o p5]

RECURSIVE QueryText(_)
QueryText(q) ==
    IF q = <<>> THEN <<>>
    ELSE <<q[1][1], "=">> \o q[1][2]
         \o (IF Len(q) > 1 THEN <<"&">> ELSE <<>>) \o QueryText(Tail(q))

\* str(url)
UrlText(u) ==
    IF u.query = <<>> THEN <<u.base>> ELSE <<u.base, "?">> \o QueryText(u.query)

(***************************************************************************)
(* The OData endpoint: what one GET can answer                             *)
(***************************************************************************)
NextLinkUrl == [base |-> "Property", query |-> << <<"%24skiptoken", <<"p2">> >> >>]

NoHeaders == [h \in {} |-> ""]
QuotaHeadersA ==
    ("Minute-Quota-Limit" :> "1000") @@ ("Minute-Quota-Remaining" :> "90")
QuotaHeadersB ==
    ("Minute-Quota-Limit" :> "1000") @@ ("Minute-Quota-Remaining" :> "n/a")
    @@ ("Hour-Quota-Limit" :> "") @@ ("hour-quota-remaining" :> "5")

\* the 'value' array of page k of the server (absent, empty, or two records
\* that no other page holds)
PageValues(k) == {Nothing, Some(<<>>), Some(<<2 * k + 1, 2 * k + 2>>)}

ErrorBodies == { <<"error">>, <<"quota", "429">> }
ErrorStatuses == {400, 404, 429, 500, 503}

GetResponse(kind, status, json, value, next, headers, text) ==
    [kind |-> kind, status |-> status, json |-> json, value |-> value,
     next |-> next, headers |-> headers, text |-> text]

\* what the server can answer to the GET for its page k;
\* more = FALSE: the server has no further page to link to
GetResponses(more, k) ==
    LET nexts == IF more THEN {Nothing, Some(NextLinkUrl)} ELSE {Nothing} IN
    {GetResponse("http", 200, TRUE, v, n, NoHeaders, <<>>) :
        v \in PageValues(k), n \in nexts}
    \cup {GetResponse("http", 200, TRUE, Some(<<2 * k + 1, 2 * k + 2>>), n, h, <<>>) :
            n \in nexts, h \in {QuotaHeadersA, QuotaHeadersB}}
    \cup {GetResponse("http", 200, FALSE, Nothing, Nothing, NoHeaders, <<"Expecting value">>)}
    \cup {GetResponse("http", 401, FALSE, Nothing, Nothing, NoHeaders, <<"unauthorized">>)}
    \cup {GetResponse("http", st, FALSE, Nothing, Nothing, NoHeaders, b) :
            st \in ErrorStatuses, b \in ErrorBodies}
    \cup {GetResponse("transport", 0, FALSE, Nothing, Nothing, NoHeaders, e) :
            e \in { <<"timed out">>, <<"Max retries exceeded with url", "429">> }}

(***************************************************************************)
(* _execute_request_once                                                   *)
(***************************************************************************)
\* data = response.json() plus the two metadata fields
ResponseData(resp) ==
    [value |-> resp.value, next |-> resp.next,
     _response_headers |-> resp.headers, _status_code |-> resp.status]

NoData == [value |-> Nothing, next |-> Nothing,
           _response_headers |-> NoHeaders, _status_code |-> 0]

Once(outcome, msg, data, cache, posts, statuses) ==
    [outcome |-> outcome, msg |-> msg, data |-> data, cache |-> cache,
     posts |-> posts, statuses |-> statuses]

\* the second GET, issued after a 401 with fresh headers
second_get(u, a2, posts, resp2) ==
    LET sts == <<401, resp2.status>> IN
    IF resp2.kind = "transport"
    THEN Once("ODataError", <<"Network error during request:">> \o resp2.text,
              NoData, a2.cache, posts, sts)
    ELSE IF resp2.status = 200
    THEN IF resp2.json
         THEN Once("ok", <<>>, ResponseData(resp2), a2.cache, posts, sts)
         ELSE Once("ODataError", <<"Invalid JSON response after retry:">> \o resp2.text,
                   NoData, a2.cache, posts, sts)
    ELSE Once("ODataError", <<"Authentication failed after retry:", ToString(resp2.status)>>,
              NoData, a2.cache, posts, sts)

\* the first GET and its classification
first_get(u, t, a1, resp, more, k) ==
    LET sts == <<resp.status>> IN
    IF resp.kind = "transport"
    THEN {Once("ODataError", <<"Network error during request:">> \o resp.text,
               NoData, a1.cache, a1.posts, sts)}
    ELSE IF resp.status = 200
    THEN IF resp.json
         THEN {Once("ok", <<>>, ResponseData(resp), a1.cache, a1.posts, sts)}
         ELSE {Once("ODataError", <<"Invalid JSON response:">> \o resp.text,
                    NoData, a1.cache, a1.posts, sts)}
    ELSE IF resp.status = 401
    THEN UNION {
           IF ~a2.ok
           THEN {Once("AuthenticationError", a2.msg, NoData, a2.cache,
                      a1.posts + a2.posts, sts)}
           ELSE {second_get(u, a2, a1.posts + a2.posts, resp2) :
                    resp2 \in GetResponses(more, k)}
           : a2 \in authenticate(clear(a1.cache), t)}
    ELSE IF resp.status = 400
    THEN {Once("ODataError", <<"Bad request:">> \o resp.text, NoData, a1.cache, a1.posts, sts)}
    ELSE IF resp.status = 404
    THEN {Once("ODataError", <<"Resource not found (404):">> \o UrlText(u),
               NoData, a1.cache, a1.posts, sts)}
    ELSE IF resp.status = 429
    THEN {Once("ODataError", <<"Rate limit exceeded", ":">> \o resp.text,
               NoData, a1.cache, a1.posts, sts)}
    ELSE {Once("ODataError", <<"Request failed:", ToString(resp.status), "-">> \o resp.text,
               NoData, a1.cache, a1.posts, sts)}

\* every outcome of one _execute_request_once(url)
execute_request_once(u, cache, t, more, k) ==
    UNION {
      IF ~a1.ok
      THEN {Once("AuthenticationError", a1.msg, NoData, a1.cache, a1.posts, <<>>)}
      ELSE UNION {first_get(u, t, a1, resp, more, k) : resp \in GetResponses(more, k)}
      : a1 \in authenticate(cache, t)}


(***************************************************************************)
(* get_quota_info                                                          *)
(***************************************************************************)
quota_headers == <<"Minute-Quota-Limit", "Minute-Quota-Remaining",
                   "Hour-Quota-Limit", "Hour-Quota-Remaining",
                   "Daily-Quota-Limit", "Daily-Quota-Remaining">>

\* header.lower().replace('-', '_')
QuotaKey(header) ==
    CASE header = "Minute-Quota-Limit"     -> "minute_quota_limit"
      [] header = "Minute-Quota-Remaining" -> "minute_quota_remaining"
      [] header = "Hour-Quota-Limit"       -> "hour_quota_limit"
      [] header = "Hour-Quota-Remaining"   -> "hour_quota_remaining"
      [] header = "Daily-Quota-Limit"      -> "daily_quota_limit"
      [] header = "Daily-Quota-Remaining"  -> "daily_quota_remaining"

\* the header texts int() accepts, with their values
IntTexts == ("1000" :> 1000) @@ ("90" :> 90) @@ ("5" :> 5) @@ ("0" :> 0)

\* a parsed value is [int |-> n]; an unparseable one is kept as [raw |-> text]
QuotaValue(text) ==
    IF text \in DOMAIN IntTexts THEN [int |-> IntTexts[text]] ELSE [raw |-> text]

get_quota_info(response_headers) ==
    LET present == {i \in DOMAIN quota_headers :
                       /\ quota_headers[i] \in DOMAIN response_headers
                       /\ response_headers[quota_headers[i]] # ""}
        HeaderOf(k) == CHOOSE i \in present : QuotaKey(quota_headers[i]) = k
    IN  [k \in {QuotaKey(quota_headers[i]) : i \in present}
            |-> QuotaValue(response_headers[quota_headers[HeaderOf(k)]])]

(***************************************************************************)
(* _execute_with_retry                                                     *)
(***************************************************************************)
\* "Rate limit exceeded" in str(e) or "429" in str(e)
IsRateLimitError(msg) ==
    \E i \in DOMAIN msg : msg[i] \in {"Rate limit exceeded", "429"}

may_retry_once_more(attempt, n) == attempt <= n

\* if attempt < self.max_retries
may_retry(attempt, n) == attempt < n

updates_quota_always(r) == TRUE

\* the two assignments follow `response = self._execute_request_once(url)`
\* inside the try: they run only when that call returned
updates_quota(r) == r.outcome = "ok"

quota_after_merged(old, data) == get_quota_info(data._response_headers) @@ old

\* self._quota_info = self.get_quota_info(response['_response_headers'])
quota_after(old, data) == get_quota_info(data._response_headers)

RateLimitMessage(n, msg) ==
    <<"Rate limit exceeded after", ToString(n), "retries:">> \o msg

NoUrl == [base |-> "", query |-> <<>>]
NoResult == [type |-> "none", msg |-> <<>>, data |-> NoData, records |-> <<>>]
Raised(type, msg) == [type |-> type, msg |-> msg, data |-> NoData, records |-> <<>>]
Returned(data) == [type |-> "ok", msg |-> <<>>, data |-> data, records |-> <<>>]

NoPage == [active |-> FALSE, all_records |-> <<>>, page_count |-> 0,
           max_pages |-> Nothing, req_top |-> Nothing,
           fetched |-> <<>>, requests |-> 0, cycle |-> FALSE]

ObsInit == [gets |-> 0, posts |-> 0, sleeps |-> 0, first |-> -1, only429 |-> TRUE,
            authFailed |-> FALSE, reissueFailed |-> FALSE, lateGet |-> FALSE,
            done |-> FALSE, okHeaders |-> Nothing,
            attempts |-> 0, slept_for |-> <<>>]

\* a new request starts: the counters restart, the last good response is kept
ObsReset(o) == [ObsInit EXCEPT !.okHeaders = o.okHeaders]

\* what this attempt adds to the observation of the call
\* (attempt is the loop variable; slept_for lists the arguments given to
\* _calculate_backoff_delay, in order)
Observe(o, r, attempt, slept, finished) ==
    [gets    |-> o.gets + Len(r.statuses),
     attempts  |-> o.attempts + 1,
     slept_for |-> IF slept THEN Append(o.slept_for, attempt) ELSE o.slept_for,
     posts   |-> o.posts + r.posts,
     sleeps  |-> o.sleeps + (IF slept THEN 1 ELSE 0),
     first   |-> IF o.gets = 0 /\ r.statuses # <<>> THEN r.statuses[1] ELSE o.first,
     only429 |-> o.only429 /\ \A i \in DOMAIN r.statuses : r.statuses[i] = 429,
     authFailed    |-> o.authFailed \/ r.outcome = "AuthenticationError",
     reissueFailed |-> o.reissueFailed \/ (Len(r.statuses) = 2 /\ r.statuses[2] # 200),
     lateGet |-> o.lateGet \/ (o.reissueFailed /\ r.statuses # <<>>),
     done    |-> finished,
     okHeaders |-> IF r.outcome = "ok" THEN Some(r.data._response_headers)
                   ELSE o.okHeaders]

raise_through_paging_partial(exc, all_records) == [exc EXCEPT !.records = all_records]

\* execute_query and execute_url are called outside any try block: what they
\* raise leaves execute_paginated_query, and all_records is dropped with it
raise_through_paging(exc, all_records) == exc

\* the server has a further page to link to
MorePages == page.active /\ (page.cycle \/ page.page_count + 1 < MaxPages)

\* a server whose pages link in a cycle puts a next link on every page it
\* returns (a full page without quota headers)
ServerAnswers(r) ==
    (page.cycle /\ r.outcome = "ok") =>
        /\ r.data.next # Nothing
        /\ r.data.value # Nothing /\ r.data.value[1] # <<>>
        /\ r.data._response_headers = NoHeaders

\* one iteration of the loop `for attempt in range(self.max_retries + 1)`
RetryAttempt ==
    /\ pc = "retry"
    /\ \E r \in execute_request_once(req.url, token_cache, now, MorePages, page.page_count) :
        /\ ServerAnswers(r)
        /\ token_cache' = r.cache
        /\ quota_info' = IF updates_quota(r) THEN quota_after(quota_info, r.data)
                         ELSE quota_info
        /\ last_quota_check' = IF updates_quota(r) THEN Some(now) ELSE last_quota_check
        /\ IF r.outcome = "ok"
           THEN /\ result' = Returned(r.data)
                /\ pc' = IF page.active THEN "page" ELSE "idle"
                /\ obs' = Observe(obs, r, req.attempt, FALSE, TRUE)
                /\ UNCHANGED <<req, page>>
           ELSE IF r.outcome = "ODataError" /\ IsRateLimitError(r.msg)
                   /\ may_retry(req.attempt, max_retries)
           THEN \* time.sleep(delay); continue
                /\ req' = [req EXCEPT !.attempt = @ + 1]
                /\ obs' = Observe(obs, r, req.attempt, TRUE, FALSE)
                /\ UNCHANGED <<result, pc, page>>
           ELSE /\ result' = raise_through_paging(
                     IF r.outcome = "ODataError" /\ IsRateLimitError(r.msg)
                     THEN Raised("RateLimitError", RateLimitMessage(max_retries, r.msg))
                     ELSE Raised(r.outcome, r.msg),
                     page.all_records)
                /\ pc' = "idle"
                /\ page' = [page EXCEPT !.active = FALSE]
                /\ obs' = Observe(obs, r, req.attempt, FALSE, TRUE)
                /\ UNCHANGED req
    /\ UNCHANGED <<now, max_retries, auths>>
    /\ UNCHANGED <<transformer_vars, sync_vars, run_vars, call_vars>>

(***************************************************************************)
(* execute_query                                                           *)
(***************************************************************************)
QueryTops == {Nothing, Some(429)}

execute_query(top) ==
    /\ pc = "idle"
    /\ req' = [url |-> build_odata_url("Property", Nothing, Nothing, top, Nothing, Nothing),
               attempt |-> 0]
    /\ pc' = "retry"
    /\ page' = NoPage
    /\ result' = NoResult
    /\ obs' = ObsReset(obs)
    /\ auths' = <<>>
    /\ UNCHANGED <<now, token_cache, quota_info, last_quota_check, max_retries>>
    /\ UNCHANGED <<transformer_vars, sync_vars, run_vars, call_vars>>

(***************************************************************************)
(* execute_paginated_query                                                 *)
(***************************************************************************)
clamp_top_missing(top) == top

\* if top is not None and top > 1000: top = 1000
clamp_top(top) == IF top # Nothing /\ top[1] > TopLimit THEN Some(TopLimit) ELSE top

PageTops == {Nothing, Some(429), Some(TopLimit), Some(TopLimit + 1)}
MaxPagesArgs == {Nothing} \cup {Some(n) : n \in 0..MaxPagesArg}

\* entry: clamp top and issue the initial query
\* (cycle: the server the query runs against links its pages in a cycle)
paginated_query_against(top, max_pages, cycle) ==
    /\ pc = "idle"
    /\ LET u == build_odata_url("Property", Nothing, Nothing, clamp_top(top),
                                Nothing, Nothing)
       IN  /\ req' = [url |-> u, attempt |-> 0]
           /\ page' = [active |-> TRUE, all_records |-> <<>>, page_count |-> 0,
                       max_pages |-> max_pages, req_top |-> top,
                       fetched |-> <<>>, requests |-> 1, cycle |-> cycle]
    /\ pc' = "retry"
    /\ result' = NoResult
    /\ obs' = ObsReset(obs)
    /\ auths' = <<>>
    /\ UNCHANGED <<now, token_cache, quota_info, last_quota_check, max_retries>>
    /\ UNCHANGED <<transformer_vars, sync_vars, run_vars, call_vars>>

execute_paginated_query(top, max_pages) == paginated_query_against(top, max_pages, FALSE)

page_records_skip_first(response) ==
    IF response.value # Nothing /\ response.value[1] # <<>>
    THEN Tail(response.value[1]) ELSE <<>>

\* if 'value' in response: all_records.extend(response['value'])
page_records(response) ==
    IF response.value # Nothing THEN response.value[1] ELSE <<>>

continue_paging_uncapped(response, page_count, max_pages) == response.next # Nothing

\* the while condition and the max_pages break
continue_paging(response, page_count, max_pages) ==
    /\ response.next # Nothing
    /\ ~(max_pages # Nothing /\ page_count >= max_pages[1])

\* a page has arrived: accumulate it, then follow the next link or return
PageStep ==
    /\ pc = "page"
    /\ page.cycle => page.page_count < MaxCyclePages
    /\ LET response == result.data
           all == page.all_records \o page_records(response)
           cnt == page.page_count + 1
       IN  IF continue_paging(response, cnt, page.max_pages)
           THEN /\ page' = [page EXCEPT !.all_records = all, !.page_count = cnt,
                                        !.fetched = Append(@, response.value),
                                        !.requests = @ + 1,
                                        !.req_top = Nothing]
                /\ req' = [url |-> response.next[1], attempt |-> 0]
                /\ pc' = "retry"
                /\ obs' = ObsReset(obs)
                /\ result' = NoResult
           ELSE /\ page' = [page EXCEPT !.all_records = all, !.page_count = cnt,
                                        !.fetched = Append(@, response.value),
                                        !.active = FALSE,
                                        !.req_top = Nothing]
                /\ result' = [type |-> "ok", msg |-> <<>>, data |-> response,
                               records |-> all]
                /\ pc' = "idle"
                /\ UNCHANGED <<req, obs>>
    /\ UNCHANGED <<now, token_cache, quota_info, last_quota_check, max_retries, auths>>
    /\ UNCHANGED <<transformer_vars, sync_vars, run_vars, call_vars>>

(***************************************************************************)
(* The consumer calls authenticate(); the clock advances                   *)
(***************************************************************************)
authenticate_call ==
    /\ pc = "idle"
    /\ \E a \in authenticate(token_cache, now) :
        /\ token_cache' = a.cache
        /\ auths' = (IF auths = <<>> THEN <<>> ELSE <<auths[Len(auths)]>>)
                    \o <<[at |-> now, before |-> token_cache, ok |-> a.ok,
                          token |-> a.token, posts |-> a.posts,
                          expires_in |-> a.expires_in]>>
    /\ UNCHANGED <<now, quota_info, last_quota_check, max_retries, pc, req, page,
                   result, obs>>
    /\ UNCHANGED <<transformer_vars, sync_vars, run_vars, call_vars>>

\* TokenCache.clear()
clear_call ==
    /\ pc = "idle"
    /\ token_cache # clear(token_cache)
    /\ token_cache' = clear(token_cache)
    /\ auths' = <<>>
    /\ UNCHANGED <<now, quota_info, last_quota_check, max_retries, pc, req, page,
                   result, obs>>
    /\ UNCHANGED <<transformer_vars, sync_vars, run_vars, call_vars>>

NoStats == [total_records |-> 0, valid_records |-> 0, invalid_records |-> 0,
            duplicates_detected |-> 0, field_transformations |-> EmptyDict,
            validation_errors |-> <<>>]
NoBatchResult == [type |-> "none", exc |-> "", records |-> <<>>, stats |-> NoStats]
NoBatch == [api_records |-> <<>>, existing_keys |-> Nothing,
            continue_on_error |-> TRUE, i |-> 0, transformed_records |-> <<>>,
            validation_errors |-> <<>>, field_transformations |-> EmptyDict,
            seen_at_call |-> {}]

\* nothing called yet on the sync manager, no run of the orchestrator started
NoSync == [data_types |-> <<>>, requests |-> <<>>, last_sync_timestamp |-> Nothing,
           custom_filters |-> Nothing, i |-> 0, results |-> EmptyDict,
           total_records_processed |-> 0, steps |-> <<>>, watermark_reads |-> 0,
           read_raised |-> FALSE]
NoSyncResult == [type |-> "none", exc |-> "", results |-> EmptyDict, total_api_calls |-> 0,
                 total_records_processed |-> 0]
NoBatchRequests == [called |-> FALSE, data_types |-> <<>>,
                    last_sync_timestamp |-> Nothing, custom_filters |-> Nothing,
                    requests |-> <<>>]
NoRun == [pc |-> "idle", sync_run |-> Nothing, dry_run |-> FALSE, errors |-> FALSE,
          before |-> {}, read |-> {}]

Tick ==
    /\ now + TickSeconds <= MaxTicks * TickSeconds
    /\ now' = now + TickSeconds
    /\ UNCHANGED <<token_cache, quota_info, last_quota_check, max_retries, pc, req,
                   page, result, obs, auths>>
    /\ UNCHANGED <<transformer_vars, sync_vars, run_vars, call_vars>>

Init ==
    /\ now = 0
    /\ token_cache = EmptyCache
    /\ quota_info = get_quota_info(NoHeaders)
    /\ last_quota_check = Nothing
    /\ max_retries \in 0..MaxRetriesBound
    /\ pc = "idle"
    /\ req = [url |-> NoUrl, attempt |-> 0]
    /\ page = NoPage
    /\ result = NoResult
    /\ obs = ObsInit
    /\ auths = <<>>
    /\ field_name_cache = EmptyDict
    /\ duplicate_keys = {}
    /\ batch = NoBatch
    /\ batch_result = NoBatchResult
    /\ pcT = "idle"
    /\ dup_calls = <<>>
    /\ api_calls_count = 0
    /\ sync = NoSync
    /\ sync_result = NoSyncResult
    /\ pcS = "idle"
    /\ batch_requests = NoBatchRequests
    /\ etl_sync_log = <<>>
    /\ orch = NoRun
    /\ runs = <<>>
    /\ calls = <<>>

QueryCall == \E top \in QueryTops : execute_query(top)
PaginatedCall == \E top \in PageTops, mp \in MaxPagesArgs : execute_paginated_query(top, mp)

\* single queries against the retry loop
Next ==
    \/ QueryCall
    \/ RetryAttempt

Spec == Init /\ [][Next]_vars

\* paginated queries
NextPage ==
    \/ PaginatedCall
    \/ RetryAttempt
    \/ PageStep

InitPage == Init /\ max_retries = PageRetries

SpecPage == InitPage /\ [][NextPage]_vars

\* paginated queries against a server that ends its pages and against one
\* whose next links cycle; every request is answered and the loop goes on
\* (the first paginated query of a new client)
PaginatedCallOnServer ==
    /\ page = NoPage
    /\ \E mp \in MaxPagesArgs, cycle \in BOOLEAN : paginated_query_against(Nothing, mp, cycle)

NextPaging ==
    \/ PaginatedCallOnServer
    \/ RetryAttempt
    \/ PageStep

SpecPaging ==
    /\ InitPage
    /\ [][NextPaging]_vars
    /\ WF_vars(RetryAttempt)
    /\ WF_vars(PageStep)

\* the token cache under a running clock
NextAuth ==
    \/ authenticate_call
    \/ clear_call
    \/ Tick

SpecAuth == Init /\ [][NextAuth]_vars

\* authenticate() and queries on one client, while tokens expire
NextReauth ==
    \/ authenticate_call
    \/ clear_call
    \/ Tick
    \/ QueryCall
    \/ RetryAttempt

InitReauth == Init /\ max_retries = 0

SpecReauth == InitReauth /\ [][NextReauth]_vars

(***************************************************************************)
(* Claims about the API client                                             *)
(***************************************************************************)
\* the request has ended (returned or raised) with every GET answered 429
\* and every authentication succeeding
OnlyRateLimited == obs.done /\ obs.gets > 0 /\ obs.only429 /\ ~obs.authFailed

\* C1: with max_retries = N and every GET answered 429, one request makes
\* exactly N+1 GET attempts (sleeping N times between them) and then raises
\* RateLimitError whose message names N retries.
C1_RateLimitAttempts ==
    OnlyRateLimited =>
        /\ obs.gets = max_retries + 1
        /\ obs.sleeps = max_retries
        /\ result.type = "RateLimitError"
        /\ result.msg[1] = "Rate limit exceeded after"
        /\ result.msg[2] = ToString(max_retries)
        /\ result.msg[3] = "retries:"

C1_Witness ==
    /\ OnlyRateLimited
    /\ max_retries = 2
    /\ obs.gets = 3
    /\ result.type = "RateLimitError"

\* C2: when the first GET of a request fails with anything but a 429 (a 400,
\* 404 or 5xx response, or a transport failure), the request raises ODataError
\* after exactly one GET, with no backoff sleep and no retry, whatever the
\* response body, the URL and the error text are.
C2_NoRetryOnOtherFailures ==
    (obs.gets > 0 /\ obs.first \in {0, 400, 404, 500, 503}) =>
        /\ obs.gets = 1
        /\ obs.sleeps = 0
        /\ obs.done
        /\ result.type = "ODataError"

\* C3: after a 401 the URL is re-issued once, and when that second response is
\* not a 200 no further GET is issued for the request.
C3_NoGetAfterFailedReissue == ~obs.lateGet

\* C32: whatever statuses the server returns, one execute_query or
\* execute_url call issues at most 2*(max_retries+1) GETs and at most
\* max_retries backoff sleeps; each sleep lies between two attempts and is
\* computed from the 0-based index of the attempt that just failed, and no
\* sleep follows the final attempt.
C32_BoundedGetsAndSleeps ==
    /\ obs.gets <= 2 * (max_retries + 1)
    /\ obs.sleeps <= max_retries
    /\ Len(obs.slept_for) = obs.sleeps
    /\ \A k \in DOMAIN obs.slept_for : obs.slept_for[k] = k - 1
    /\ obs.done => obs.attempts = obs.sleeps + 1
    /\ (pc = "retry") => obs.attempts = obs.sleeps /\ req.attempt = obs.attempts

\* a call that used every attempt and every reissue, and slept in between
C32_Witness ==
    /\ obs.done
    /\ max_retries = 2
    /\ obs.gets = 6
    /\ obs.slept_for = <<0, 1>>

\* a paginated query is running
Paging == page.active /\ pc # "idle"

\* the paginated query has returned its records
PagingReturned == pc = "idle" /\ ~page.active /\ result.type = "ok"

\* C33: execute_paginated_query terminates whenever max_pages is given or the
\* server eventually returns a page without a next link; with max_pages
\* absent and a server that puts a next link on every page it never returns.
C33_PagingTerminates ==
    /\ (Paging /\ (page.max_pages # Nothing \/ ~page.cycle)) ~> (pc = "idle")
    /\ [](page.max_pages # Nothing =>
            page.page_count <= IF page.max_pages[1] = 0 THEN 1 ELSE page.max_pages[1])
    /\ []((page.cycle /\ page.max_pages = Nothing) => ~PagingReturned)

\* the query without max_pages has followed the cycle as far as it is let
C33_Witness ==
    /\ Paging
    /\ page.cycle
    /\ page.max_pages = Nothing
    /\ page.page_count = MaxCyclePages

\* a paginated query has ended with an exception
PaginatedRaised ==
    /\ pc = "idle" /\ ~page.active /\ page.requests >= 1
    /\ result.type \notin {"ok", "none"}

\* C34: if any page fetch inside execute_paginated_query raises, the
\* exception propagates to the caller and none of the records accumulated
\* from earlier pages are returned: a paginated query yields either all
\* fetched pages or no records.
C34_AllPagesOrNothing ==
    (pc = "idle" /\ page.requests >= 1) =>
        \/ /\ PaginatedRaised
           /\ result.records = <<>>
           /\ result.data = NoData
        \/ /\ result.type = "ok"
           /\ result.records = page.all_records
           /\ Len(page.fetched) = page.requests

\* the second page fetch raised after the first page had delivered records
C34_Witness ==
    /\ PaginatedRaised
    /\ page.requests = 2
    /\ page.all_records = <<1, 2>>
    /\ result.type = "ODataError"

(***************************************************************************)
(* Claims about the token cache (SpecAuth)                                 *)
(***************************************************************************)
\* the two last authenticate() calls, the first of which fetched a token, the
\* second made within the lifetime the server granted less the safety buffer
TwoCallsInWindow ==
    /\ Len(auths) = 2
    /\ auths[1].ok /\ auths[1].posts = 1
    /\ auths[2].at < auths[1].at + auths[1].expires_in - BufferSeconds

\* C4: two consecutive authenticate() calls within the token's validity window
\* perform exactly one POST, and both return the same token.
C4_TokenCaching ==
    TwoCallsInWindow =>
        /\ auths[1].posts + auths[2].posts = 1
        /\ auths[2].ok
        /\ auths[2].token = auths[1].token

C4_Witness ==
    /\ TwoCallsInWindow
    /\ auths[2].at > auths[1].at
    /\ auths[2].posts = 0
    /\ auths[2].token = "tokB"

\* the cache holds no token that is still more than the buffer from expiry
Stale(cache, t) ==
    \/ cache.token = Nothing
    \/ cache.expires_at = Nothing
    \/ t >= cache.expires_at[1] - BufferSeconds

\* C5: get_token returns a token only when one is cached and
\* now < expires_at - 5 minutes; with the cache empty, cleared or within 5
\* minutes of expiry it returns nothing and authenticate() makes a network call.
C5_CachedTokenOnlyWhenFresh ==
    /\ get_token(token_cache, now) # Nothing =>
          /\ ~Stale(token_cache, now)
          /\ get_token(token_cache, now) = token_cache.token
    /\ Stale(token_cache, now) => get_token(token_cache, now) = Nothing
    /\ \A i \in DOMAIN auths :
          /\ Stale(auths[i].before, auths[i].at) => auths[i].posts = 1
          /\ auths[i].posts = 0 =>
                /\ ~Stale(auths[i].before, auths[i].at)
                /\ auths[i].token = auths[i].before.token[1]

\* a call inside the buffer (token cached, not yet expired) went to the network
C5_Witness ==
    /\ auths # <<>>
    /\ LET a == auths[Len(auths)] IN
          /\ a.before.token # Nothing
          /\ a.at >= a.before.expires_at[1] - BufferSeconds
          /\ a.at < a.before.expires_at[1]
          /\ a.at > 0
          /\ a.posts = 1
    /\ get_token(token_cache, now) # Nothing

\* the last authenticate() call failed, and nothing was called since
LastAuthFailed == auths # <<>> /\ ~auths[Len(auths)].ok

\* the request ended when the authentication that follows a 401 failed, and
\* nothing was called since
ReauthFailed ==
    /\ pc = "idle" /\ obs.done /\ auths = <<>>
    /\ obs.gets = 1 /\ obs.first = 401 /\ obs.authFailed

\* C36: a failed authenticate() call (401, 400, non-JSON body, missing
\* access_token, transport failure) makes exactly one POST and leaves the
\* token cache unchanged; after a 401-triggered clear followed by a failed
\* re-authentication the cache is empty, so the next use authenticates again.
C36_FailedAuthLeavesCache ==
    /\ LastAuthFailed =>
          /\ auths[Len(auths)].posts = 1
          /\ token_cache = auths[Len(auths)].before
    /\ ReauthFailed =>
          /\ token_cache = EmptyCache
          /\ result.type = "AuthenticationError"
          /\ get_token(token_cache, now) = Nothing
          /\ \A a \in authenticate(token_cache, now) : a.posts = 1

\* authenticate() failed on a cache that held an expired token
C36_Witness ==
    /\ LastAuthFailed
    /\ auths[Len(auths)].before.token = Some("tokB")
    /\ token_cache.token = Some("tokB")

\* a request lost its token to a 401 and could not get a new one
C36_WitnessReauth ==
    /\ ReauthFailed
    /\ obs.posts = 1
    /\ token_cache = EmptyCache

(***************************************************************************)
(* Claims about pagination (SpecPage)                                      *)
(***************************************************************************)
PaginatedReturned == ~page.active /\ page.page_count > 0 /\ result.type = "ok"

\* the 'value' arrays the server delivered, a missing one being empty
Delivered == [i \in DOMAIN page.fetched |->
                 IF page.fetched[i] = Nothing THEN <<>> ELSE page.fetched[i][1]]

RECURSIVE SumLen(_)
SumLen(ss) == IF ss = <<>> THEN 0 ELSE Len(Head(ss)) + SumLen(Tail(ss))

\* C6: execute_paginated_query returns exactly the concatenation of the value
\* arrays of the fetched pages, in fetch order and within-page order; its length
\* is the sum of the page sizes; an empty or missing value array contributes
\* nothing and does not stop pagination (which ends only on a response without
\* next link or at max_pages).
C6_AllPagesConcatenated ==
    PaginatedReturned =>
        /\ result.records = Flatten(Delivered)
        /\ Len(result.records) = SumLen(Delivered)
        /\ Len(page.fetched) = page.requests
        /\ \/ result.data.next = Nothing
           \/ page.max_pages # Nothing /\ page.page_count >= page.max_pages[1]

\* three pages, the middle one empty or missing, the outer ones full
C6_Witness ==
    /\ PaginatedReturned
    /\ Len(page.fetched) = 3
    /\ page.fetched[2] \in {Nothing, Some(<<>>)}
    /\ result.records = <<1, 2, 5, 6>>

\* C7: for every max_pages value, execute_paginated_query performs at most
\* max_pages page fetches.
C7_AtMostMaxPagesFetches ==
    page.max_pages # Nothing => Len(page.fetched) <= page.max_pages[1]

\* the values of the $top parameter of a URL
TopParams(u) ==
    {u.query[i][2] : i \in {j \in DOMAIN u.query : u.query[j][1] = "%24top"}}

FirstPageRequested == page.active /\ page.page_count = 0 /\ pc = "retry"

\* C8: the page request built by execute_paginated_query carries the caller's
\* top unchanged when it is at most 1000, and 1000 when it is greater (and no
\* $top at all when the caller gave none).
C8_TopClamped ==
    FirstPageRequested =>
        TopParams(req.url) =
            IF page.req_top = Nothing THEN {}
            ELSE IF page.req_top[1] > 1000 THEN { <<"1000">> }
            ELSE { <<ToString(page.req_top[1])>> }

C8_Witness ==
    /\ FirstPageRequested
    /\ page.req_top = Some(1001)
    /\ TopParams(req.url) = { <<"1000">> }

(***************************************************************************)
(* Claims about the quota snapshot                                         *)
(***************************************************************************)
\* what the recognised quota headers of a response amount to
ExpectedQuota(h) ==
    CASE h = NoHeaders -> [k \in {} |-> [int |-> 0]]
      [] h = QuotaHeadersA ->
            ("minute_quota_limit" :> [int |-> 1000])
            @@ ("minute_quota_remaining" :> [int |-> 90])
      [] h = QuotaHeadersB ->
            ("minute_quota_limit" :> [int |-> 1000])
            @@ ("minute_quota_remaining" :> [raw |-> "n/a"])

\* C9: after every successful response the quota snapshot equals the quota
\* headers parsed from the most recent successful response, and last_check is
\* set.
C9_QuotaReflectsLatestResponse ==
    obs.okHeaders # Nothing =>
        /\ quota_info = ExpectedQuota(obs.okHeaders[1])
        /\ last_quota_check # Nothing

\* a request that succeeded on its second GET left a snapshot holding a raw value
C9_Witness ==
    /\ obs.done /\ result.type = "ok"
    /\ obs.okHeaders = Some(QuotaHeadersB)
    /\ obs.gets = 2
    /\ quota_info["minute_quota_remaining"] = [raw |-> "n/a"]
    /\ last_quota_check = Some(now)

\* a step of the retry loop that does not return a response: the attempt
\* failed and the loop sleeps, or the request raises
FailedAttempt == pc = "retry" /\ result'.type # "ok"

\* C35: a request that does not end in a successful 200 response (429, other
\* 4xx/5xx, transport failure, unparseable body) leaves the quota snapshot and
\* last_check exactly as they were before the request.
C35_FailureKeepsQuota ==
    [][FailedAttempt => UNCHANGED <<quota_info, last_quota_check>>]_vars

\* a request raised after an earlier one had stored a snapshot, which is kept
C35_Witness ==
    /\ obs.done
    /\ result.type \in {"ODataError", "RateLimitError", "AuthenticationError"}
    /\ obs.gets >= 1
    /\ quota_info = ExpectedQuota(QuotaHeadersA)
    /\ last_quota_check # Nothing

(***************************************************************************)
(* DataTransformer: field names are sequences of characters                *)
(***************************************************************************)
MaxColumnLen == 64        \* MySQL column names can be up to 64 characters

UpperCase == <<"A", "B", "C", "D", "E", "F", "G", "H", "I", "J", "K", "L", "M",
               "N", "O", "P", "Q", "R", "S", "T", "U", "V", "W", "X", "Y", "Z">>
LowerCase == <<"a", "b", "c", "d", "e", "f", "g", "h", "i", "j", "k", "l", "m",
               "n", "o", "p", "q", "r", "s", "t", "u", "v", "w", "x", "y", "z">>
Digits == {"0", "1", "2", "3", "4", "5", "6", "7", "8", "9"}
Letters == {UpperCase[i] : i \in DOMAIN UpperCase} \cup {LowerCase[i] : i \in DOMAIN LowerCase}

\* str.lower() on one character
lower(c) ==
    IF \E i \in DOMAIN UpperCase : UpperCase[i] = c
    THEN LowerCase[CHOOSE i \in DOMAIN UpperCase : UpperCase[i] = c]
    ELSE c

lower_text(s) == [i \in DOMAIN s |-> lower(s[i])]

\* str.strip() is empty
IsBlank(s) == \A i \in DOMAIN s : s[i] \in {" ", "\t"}

\* re.sub(r'[^a-zA-Z0-9_]', '_', s)
replace_non_word(s) ==
    [i \in DOMAIN s |-> IF s[i] \in Letters \cup Digits \cup {"_"} THEN s[i] ELSE "_"]

\* the positions 1..Len(s), in order
Positions(s) == [i \in 1..Len(s) |-> i]

\* re.sub(r'_+', '_', s): of every run of underscores the last one is kept
collapse_underscores(s) ==
    LET kept == SelectSeq(Positions(s),
                          LAMBDA i : ~(s[i] = "_" /\ i < Len(s) /\ s[i + 1] = "_"))
    IN  [j \in DOMAIN kept |-> s[kept[j]]]

\* s.strip('_')
lstrip_underscores(s) ==
    IF \A i \in DOMAIN s : s[i] = "_" THEN <<>>
    ELSE SubSeq(s, CHOOSE i \in DOMAIN s :
                       s[i] # "_" /\ \A j \in 1..(i - 1) : s[j] = "_",
                Len(s))

rstrip_underscores(s) ==
    IF \A i \in DOMAIN s : s[i] = "_" THEN <<>>
    ELSE SubSeq(s, 1, CHOOSE i \in DOMAIN s :
                          s[i] # "_" /\ \A j \in (i + 1)..Len(s) : s[j] = "_")

strip_underscores(s) == rstrip_underscores(lstrip_underscores(s))

Suffix_field == <<"_", "f", "i", "e", "l", "d">>
Prefix_field == <<"f", "i", "e", "l", "d", "_">>
Name_field_unknown == Prefix_field \o <<"u", "n", "k", "n", "o", "w", "n">>

EndsWith(s, suffix) ==
    /\ Len(s) >= Len(suffix)
    /\ SubSeq(s, Len(s) - Len(suffix) + 1, Len(s)) = suffix

\* s[:n]
Take(s, n) == SubSeq(s, 1, IF n < Len(s) THEN n ELSE Len(s))

MYSQL_RESERVED_WORDS == {
    <<"a", "d", "d">>,
    <<"a", "l", "l">>,
    <<"a", "l", "t", "e", "r">>,
    <<"a", "n", "a", "l", "y", "z", "e">>,
    <<"a", "n", "d">>,
    <<"a", "s">>,
    <<"a", "s", "c">>,
    <<"a", "s", "e", "n", "s", "i", "t", "i", "v", "e">>,
    <<"b", "e", "f", "o", "r", "e">>,
    <<"b", "e", "t", "w", "e", "e", "n">>,
    <<"b", "i", "g", "i", "n", "t">>,
    <<"b", "i", "n", "a", "r", "y">>,
    <<"b", "l", "o", "b">>,
    <<"b", "o", "t", "h">>,
    <<"b", "y">>,
    <<"c", "a", "l", "l">>,
    <<"c", "a", "s", "c", "a", "d", "e">>,
    <<"c", "a", "s", "e">>,
    <<"c", "h", "a", "n", "g", "e">>,
    <<"c", "h", "a", "r">>,
    <<"c", "h", "a", "r", "a", "c", "t", "e", "r">>,
    <<"c", "h", "e", "c", "k">>,
    <<"c", "o", "l", "l", "a", "t", "e">>,
    <<"c", "o", "l", "u", "m", "n">>,
    <<"c", "o", "n", "d", "i", "t", "i", "o", "n">>,
    <<"c", "o", "n", "s", "t", "r", "a", "i", "n", "t">>,
    <<"c", "o", "n", "t", "i", "n", "u", "e">>,
    <<"c", "o", "n", "v", "e", "r", "t">>,
    <<"c", "r", "e", "a", "t", "e">>,
    <<"c", "r", "o", "s", "s">>,
    <<"c", "u", "r", "r", "e", "n", "t", "_", "d", "a", "t", "e">>,
    <<"c", "u", "r", "r", "e", "n", "t", "_", "t", "i", "m", "e">>,
    <<"c", "u", "r", "r", "e", "n", "t", "_", "t", "i", "m", "e", "s", "t", "a", "m", "p">>,
    <<"c", "u", "r", "r", "e", "n", "t", "_", "u", "s", "e", "r">>,
    <<"c", "u", "r", "s", "o", "r">>,
    <<"d", "a", "t", "a", "b", "a", "s", "e">>,
    <<"d", "a", "t", "a", "b", "a", "s", "e", "s">>,
    <<"d", "a", "y", "_", "h", "o", "u", "r">>,
    <<"d", "a", "y", "_", "m", "i", "c", "r", "o", "s", "e", "c", "o", "n", "d">>,
    <<"d", "a", "y", "_", "m", "i", "n", "u", "t", "e">>,
    <<"d", "a", "y", "_", "s", "e", "c", "o", "n", "d">>,
    <<"d", "e", "c">>,
    <<"d", "e", "c", "i", "m", "a", "l">>,
    <<"d", "e", "c", "l", "a", "r", "e">>,
    <<"d", "e", "f", "a", "u", "l", "t">>,
    <<"d", "e", "l", "a", "y", "e", "d">>,
    <<"d", "e", "l", "e", "t", "e">>,
    <<"d", "e", "s", "c">>,
    <<"d", "e", "s", "c", "r", "i", "b", "e">>,
    <<"d", "e", "t", "e", "r", "m", "i", "n", "i", "s", "t", "i", "c">>,
    <<"d", "i", "s", "t", "i", "n", "c", "t">>,
    <<"d", "i", "s", "t", "i", "n", "c", "t", "r", "o", "w">>,
    <<"d", "i", "v">>,
    <<"d", "o", "u", "b", "l", "e">>,
    <<"d", "r", "o", "p">>,
    <<"d", "u", "a", "l">>,
    <<"e", "a", "c", "h">>,
    <<"e", "l", "s", "e">>,
    <<"e", "l", "s", "e", "i", "f">>,
    <<"e", "n", "c", "l", "o", "s", "e", "d">>,
    <<"e", "s", "c", "a", "p", "e", "d">>,
    <<"e", "x", "i", "s", "t", "s">>,
    <<"e", "x", "i", "t">>,
    <<"e", "x", "p", "l", "a", "i", "n">>,
    <<"f", "a", "l", "s", "e">>,
    <<"f", "e", "t", "c", "h">>,
    <<"f", "l", "o", "a", "t">>,
    <<"f", "l", "o", "a", "t", "4">>,
    <<"f", "l", "o", "a", "t", "8">>,
    <<"f", "o", "r">>,
    <<"f", "o", "r", "c", "e">>,
    <<"f", "o", "r", "e", "i", "g", "n">>,
    <<"f", "r", "o", "m">>,
    <<"f", "u", "l", "l", "t", "e", "x", "t">>,
    <<"g", "r", "a", "n", "t">>,
    <<"g", "r", "o", "u", "p">>,
    <<"h", "a", "v", "i", "n", "g">>,
    <<"h", "i", "g", "h", "_", "p", "r", "i", "o", "r", "i", "t", "y">>,
    <<"h", "o", "u", "r", "_", "m", "i", "c", "r", "o", "s", "e", "c", "o", "n", "d">>,
    <<"h", "o", "u", "r", "_", "m", "i", "n", "u", "t", "e">>,
    <<"h", "o", "u", "r", "_", "s", "e", "c", "o", "n", "d">>,
    <<"i", "f">>,
    <<"i", "g", "n", "o", "r", "e">>,
    <<"i", "n">>,
    <<"i", "n", "d", "e", "x">>,
    <<"i", "n", "f", "i", "l", "e">>,
    <<"i", "n", "n", "e", "r">>,
    <<"i", "n", "o", "u", "t">>,
    <<"i", "n", "s", "e", "n", "s", "i", "t", "i", "v", "e">>,
    <<"i", "n", "s", "e", "r", "t">>,
    <<"i", "n", "t">>,
    <<"i", "n", "t", "1">>,
    <<"i", "n", "t", "2">>,
    <<"i", "n", "t", "3">>,
    <<"i", "n", "t", "4">>,
    <<"i", "n", "t", "8">>,
    <<"i", "n", "t", "e", "g", "e", "r">>,
    <<"i", "n", "t", "e", "r", "v", "a", "l">>,
    <<"i", "n", "t", "o">>,
    <<"i", "s">>,
    <<"i", "t", "e", "r", "a", "t", "e">>,
    <<"j", "o", "i", "n">>,
    <<"k", "e", "y">>,
    <<"k", "e", "y", "s">>,
    <<"k", "i", "l", "l">>,
    <<"l", "e", "a", "d", "i", "n", "g">>,
    <<"l", "e", "a", "v", "e">>,
    <<"l", "e", "f", "t">>,
    <<"l", "i", "k", "e">>,
    <<"l", "i", "m", "i", "t">>,
    <<"l", "i", "n", "e", "a", "r">>,
    <<"l", "i", "n", "e", "s">>,
    <<"l", "o", "a", "d">>,
    <<"l", "o", "c", "a", "l", "t", "i", "m", "e">>,
    <<"l", "o", "c", "a", "l", "t", "i", "m", "e", "s", "t", "a", "m", "p">>,
    <<"l", "o", "c", "k">>,
    <<"l", "o", "n", "g">>,
    <<"l", "o", "n", "g", "b", "l", "o", "b">>,
    <<"l", "o", "n", "g", "t", "e", "x", "t">>,
    <<"l", "o", "o", "p">>,
    <<"l", "o", "w", "_", "p", "r", "i", "o", "r", "i", "t", "y">>,
    <<"m", "a", "t", "c", "h">>,
    <<"m", "e", "d", "i", "u", "m", "b", "l", "o", "b">>,
    <<"m", "e", "d", "i", "u", "m", "i", "n", "t">>,
    <<"m", "e", "d", "i", "u", "m", "t", "e", "x", "t">>,
    <<"m", "i", "d", "d", "l", "e", "i", "n", "t">>,
    <<"m", "i", "n", "u", "t", "e", "_", "m", "i", "c", "r", "o", "s", "e", "c", "o", "n", "d">>,
    <<"m", "i", "n", "u", "t", "e", "_", "s", "e", "c", "o", "n", "d">>,
    <<"m", "o", "d">>,
    <<"m", "o", "d", "i", "f", "i", "e", "s">>,
    <<"n", "a", "t", "u", "r", "a", "l">>,
    <<"n", "o", "_", "w", "r", "i", "t", "e", "_", "t", "o", "_", "b", "i", "n", "l", "o", "g">>,
    <<"n", "o", "t">>,
    <<"n", "u", "l", "l">>,
    <<"n", "u", "m", "e", "r", "i", "c">>,
    <<"o", "n">>,
    <<"o", "p", "t", "i", "m", "i", "z", "e">>,
    <<"o", "p", "t", "i", "o", "n">>,
    <<"o", "p", "t", "i", "o", "n", "a", "l", "l", "y">>,
    <<"o", "r">>,
    <<"o", "r", "d", "e", "r">>,
    <<"o", "u", "t">>,
    <<"o", "u", "t", "e", "r">>,
    <<"o", "u", "t", "f", "i", "l", "e">>,
    <<"p", "r", "e", "c", "i", "s", "i", "o", "n">>,
    <<"p", "r", "i", "m", "a", "r", "y">>,
    <<"p", "r", "o", "c", "e", "d", "u", "r", "e">>,
    <<"p", "u", "r", "g", "e">>,
    <<"r", "a", "n", "g", "e">>,
    <<"r", "e", "a", "d">>,
    <<"r", "e", "a", "d", "s">>,
    <<"r", "e", "a", "l">>,
    <<"r", "e", "f", "e", "r", "e", "n", "c", "e", "s">>,
    <<"r", "e", "g", "e", "x", "p">>,
    <<"r", "e", "l", "e", "a", "s", "e">>,
    <<"r", "e", "n", "a", "m", "e">>,
    <<"r", "e", "p", "e", "a", "t">>,
    <<"r", "e", "p", "l", "a", "c", "e">>,
    <<"r", "e", "q", "u", "i", "r", "e">>,
    <<"r", "e", "s", "t", "r", "i", "c", "t">>,
    <<"r", "e", "t", "u", "r", "n">>,
    <<"r", "e", "v", "o", "k", "e">>,
    <<"r", "i", "g", "h", "t">>,
    <<"r", "l", "i", "k", "e">>,
    <<"s", "c", "h", "e", "m", "a">>,
    <<"s", "c", "h", "e", "m", "a", "s">>,
    <<"s", "e", "c", "o", "n", "d", "_", "m", "i", "c", "r", "o", "s", "e", "c", "o", "n", "d">>,
    <<"s", "e", "l", "e", "c", "t">>,
    <<"s", "e", "n", "s", "i", "t", "i", "v", "e">>,
    <<"s", "e", "p", "a", "r", "a", "t", "o", "r">>,
    <<"s", "e", "t">>,
    <<"s", "h", "o", "w">>,
    <<"s", "m", "a", "l", "l", "i", "n", "t">>,
    <<"s", "p", "a", "t", "i", "a", "l">>,
    <<"s", "p", "e", "c", "i", "f", "i", "c">>,
    <<"s", "q", "l">>,
    <<"s", "q", "l", "_", "b", "i", "g", "_", "r", "e", "s", "u", "l", "t">>,
    <<"s", "q", "l", "_", "c", "a", "l", "c", "_", "f", "o", "u", "n", "d", "_", "r", "o", "w", "s">>,
    <<"s", "q", "l", "_", "s", "m", "a", "l", "l", "_", "r", "e", "s", "u", "l", "t">>,
    <<"s", "q", "l", "e", "x", "c", "e", "p", "t", "i", "o", "n">>,
    <<"s", "q", "l", "s", "t", "a", "t", "e">>,
    <<"s", "q", "l", "w", "a", "r", "n", "i", "n", "g">>,
    <<"s", "s", "l">>,
    <<"s", "t", "a", "r", "t", "i", "n", "g">>,
    <<"s", "t", "r", "a", "i", "g", "h", "t", "_", "j", "o", "i", "n">>,
    <<"t", "a", "b", "l", "e">>,
    <<"t", "e", "r", "m", "i", "n", "a", "t", "e", "d">>,
    <<"t", "h", "e", "n">>,
    <<"t", "i", "n", "y", "b", "l", "o", "b">>,
    <<"t", "i", "n", "y", "i", "n", "t">>,
    <<"t", "i", "n", "y", "t", "e", "x", "t">>,
    <<"t", "o">>,
    <<"t", "r", "a", "i", "l", "i", "n", "g">>,
    <<"t", "r", "i", "g", "g", "e", "r">>,
    <<"t", "r", "u", "e">>,
    <<"u", "n", "d", "o">>,
    <<"u", "n", "i", "o", "n">>,
    <<"u", "n", "i", "q", "u", "e">>,
    <<"u", "n", "l", "o", "c", "k">>,
    <<"u", "n", "s", "i", "g", "n", "e", "d">>,
    <<"u", "p", "d", "a", "t", "e">>,
    <<"u", "s", "a", "g", "e">>,
    <<"u", "s", "e">>,
    <<"u", "s", "i", "n", "g">>,
    <<"u", "t", "c", "_", "d", "a", "t", "e">>,
    <<"u", "t", "c", "_", "t", "i", "m", "e">>,
    <<"u", "t", "c", "_", "t", "i", "m", "e", "s", "t", "a", "m", "p">>,
    <<"v", "a", "l", "u", "e", "s">>,
    <<"v", "a", "r", "b", "i", "n", "a", "r", "y">>,
    <<"v", "a", "r", "c", "h", "a", "r">>,
    <<"v", "a", "r", "c", "h", "a", "r", "a", "c", "t", "e", "r">>,
    <<"v", "a", "r", "y", "i", "n", "g">>,
    <<"w", "h", "e", "n">>,
    <<"w", "h", "e", "r", "e">>,
    <<"w", "h", "i", "l", "e">>,
    <<"w", "i", "t", "h">>,
    <<"w", "r", "i", "t", "e">>,
    <<"x", "5", "0", "9">>,
    <<"x", "o", "r">>,
    <<"y", "e", "a", "r", "_", "m", "o", "n", "t", "h">>,
    <<"z", "e", "r", "o", "f", "i", "l", "l">> }

\* the result normalize_field_name computes on a cache miss
\* if normalized and not re.match(r'^[a-zA-Z_]', normalized)
ensure_prefix(n) ==
    IF n # <<>> /\ ~(n[1] \in Letters \cup {"_"}) THEN Prefix_field \o n ELSE n

\* if not normalized
ensure_nonempty(n) == IF n = <<>> THEN Name_field_unknown ELSE n

\* a variant without the reserved-word check
reserved_suffix_none(n) == n

\* if normalized.lower() in self.MYSQL_RESERVED_WORDS
reserved_suffix(n) ==
    IF lower_text(n) \in MYSQL_RESERVED_WORDS THEN n \o Suffix_field ELSE n

\* if len(normalized) > 64, keeping a '_field' suffix
truncate(n) ==
    IF Len(n) > MaxColumnLen
    THEN IF EndsWith(n, Suffix_field)
         THEN Take(n, MaxColumnLen - Len(Suffix_field)) \o Suffix_field
         ELSE Take(n, MaxColumnLen)
    ELSE n

\* the final length check
final_truncate(n) == IF Len(n) > MaxColumnLen THEN Take(n, MaxColumnLen) ELSE n

\* normalize_field_name past the cache lookup
normalize_uncached(field_name) ==
    final_truncate(truncate(reserved_suffix(ensure_nonempty(ensure_prefix(
        strip_underscores(collapse_underscores(replace_non_word(
            lower_text(field_name)))))))))

\* self._field_name_cache[field_name] = normalized; return normalized
cache_store(field_name, normalized, cache) ==
    [kind |-> "ok", name |-> normalized, cache |-> (field_name :> normalized) @@ cache]

\* a variant that remembers the inputs it rejected
normalize_field_name_caching_failures(field_name, cache) ==
    IF IsBlank(field_name)
    THEN [kind |-> "DataTransformationError", name |-> <<>>,
          cache |-> (field_name :> <<>>) @@ cache]
    ELSE IF field_name \in DOMAIN cache
    THEN [kind |-> "ok", name |-> cache[field_name], cache |-> cache]
    ELSE cache_store(field_name, normalize_uncached(field_name), cache)

\* normalize_field_name on a string: [kind, name, cache]; the cache maps the
\* inputs normalized so far to their outputs
normalize_field_name(field_name, cache) ==
    IF IsBlank(field_name)
    THEN [kind |-> "DataTransformationError", name |-> <<>>, cache |-> cache]
    ELSE IF field_name \in DOMAIN cache
    THEN [kind |-> "ok", name |-> cache[field_name], cache |-> cache]
    ELSE cache_store(field_name, normalize_uncached(field_name), cache)

\* the columns of FIELD_TYPE_MAPPINGS
F_listing_key == <<"l", "i", "s", "t", "i", "n", "g", "_", "k", "e", "y">>
F_list_price == <<"l", "i", "s", "t", "_", "p", "r", "i", "c", "e">>
F_property_type == <<"p", "r", "o", "p", "e", "r", "t", "y", "_", "t", "y", "p", "e">>
F_bedrooms_total == <<"b", "e", "d", "r", "o", "o", "m", "s", "_", "t", "o", "t", "a", "l">>
F_bathrooms_total == <<"b", "a", "t", "h", "r", "o", "o", "m", "s", "_", "t", "o", "t", "a", "l">>
F_square_feet == <<"s", "q", "u", "a", "r", "e", "_", "f", "e", "e", "t">>
F_lot_size_acres == <<"l", "o", "t", "_", "s", "i", "z", "e", "_", "a", "c", "r", "e", "s">>
F_year_built == <<"y", "e", "a", "r", "_", "b", "u", "i", "l", "t">>
F_listing_status == <<"l", "i", "s", "t", "i", "n", "g", "_", "s", "t", "a", "t", "u", "s">>
F_modification_timestamp == <<"m", "o", "d", "i", "f", "i", "c", "a", "t", "i", "o", "n", "_", "t", "i", "m", "e",
    "s", "t", "a", "m", "p">>
F_street_address == <<"s", "t", "r", "e", "e", "t", "_", "a", "d", "d", "r", "e", "s", "s">>
F_city == <<"c", "i", "t", "y">>
F_state_or_province == <<"s", "t", "a", "t", "e", "_", "o", "r", "_", "p", "r", "o", "v", "i", "n", "c", "e">>
F_postal_code == <<"p", "o", "s", "t", "a", "l", "_", "c", "o", "d", "e">>

(***************************************************************************)
(* Text values: the strings of the model and what Python makes of them     *)
(***************************************************************************)
Texts == {"", " 3 ", "$450,000", "$450000", "-5", "1,200", "1200", "2024-01-15T10:30:00Z", "2024-02-01 08:00:00", "3", "3.7", "450,000", "450000", "A", "B", "abc", "bad-date", "inf"}

\* str.strip()
py_strip(s) ==
    CASE s = " 3 " -> "3"
      [] OTHER -> s

\* str.replace(',', '')
remove_commas(s) ==
    CASE s = "$450,000" -> "$450000"
      [] s = "1,200" -> "1200"
      [] s = "450,000" -> "450000"
      [] OTHER -> s

\* str.replace('$', '')
remove_dollars(s) ==
    CASE s = "$450,000" -> "450,000"
      [] s = "$450000" -> "450000"
      [] OTHER -> s

\* float(s): a number in thousandths, infinite, nan, or err (ValueError)
py_float(s) ==
    CASE s = " 3 " -> [k |-> "fin", m |-> 3000]
      [] s = "-5" -> [k |-> "fin", m |-> -5000]
      [] s = "1200" -> [k |-> "fin", m |-> 1200000]
      [] s = "3" -> [k |-> "fin", m |-> 3000]
      [] s = "3.7" -> [k |-> "fin", m |-> 3700]
      [] s = "450000" -> [k |-> "fin", m |-> 450000000]
      [] s = "inf" -> [k |-> "inf", m |-> 0]
      [] OTHER -> [k |-> "err", m |-> 0]

\* Decimal(s): likewise, err being InvalidOperation
py_decimal(s) ==
    CASE s = " 3 " -> [k |-> "fin", m |-> 3000]
      [] s = "-5" -> [k |-> "fin", m |-> -5000]
      [] s = "1200" -> [k |-> "fin", m |-> 1200000]
      [] s = "3" -> [k |-> "fin", m |-> 3000]
      [] s = "3.7" -> [k |-> "fin", m |-> 3700]
      [] s = "450000" -> [k |-> "fin", m |-> 450000000]
      [] s = "inf" -> [k |-> "inf", m |-> 0]
      [] OTHER -> [k |-> "err", m |-> 0]

\* datetime.strptime over the fixed list of formats, first match wins: the
\* minutes since 2024-01-01 00:00, or Nothing when no format matches
parse_datetime(s) ==
    CASE s = "2024-01-15T10:30:00Z" -> Some(20790)
      [] s = "2024-02-01 08:00:00" -> Some(45120)
      [] OTHER -> Nothing

(***************************************************************************)
(* Python values                                                           *)
(***************************************************************************)
VNone == [t |-> "none"]
VStr(s) == [t |-> "str", s |-> s]
VInt(n) == [t |-> "int", n |-> n]
VBool(b) == [t |-> "bool", b |-> b]
VFloat(x) == [t |-> "float", x |-> x]
VDecimal(x) == [t |-> "decimal", x |-> x]
VDatetime(ts) == [t |-> "datetime", ts |-> ts]
VList == [t |-> "list"]

Fin(m) == [k |-> "fin", m |-> m]

Ok(v) == [kind |-> "ok", v |-> v]
Raise(exc) == [kind |-> exc, v |-> VNone]

\* int(x) of a number in thousandths: truncation toward zero
Trunc(m) == IF m >= 0 THEN m \div 1000 ELSE -((-m) \div 1000)

\* int(x) for a float or Decimal x
int_of_number(x) ==
    CASE x.k = "fin" -> Ok(VInt(Trunc(x.m)))
      [] x.k \in {"inf", "-inf"} -> Raise("OverflowError")
      [] OTHER -> Raise("ValueError")

\* str(value)
py_str(value) ==
    CASE value.t = "str"  -> value.s
      [] value.t = "int"  -> ToString(value.n)
      [] value.t = "bool" -> IF value.b THEN "True" ELSE "False"
      [] value.t \in {"float", "decimal"} ->
            IF value.x.k = "fin" THEN ToString(Trunc(value.x.m)) ELSE value.x.k
      [] value.t = "list" -> "[]"
      [] OTHER -> "None"

\* Decimal(str(value)) for an int or float value
decimal_of_number(value) ==
    CASE value.t = "int"   -> Ok(VDecimal(Fin(value.n * 1000)))
      [] value.t = "float" -> Ok(VDecimal(value.x))
      [] OTHER             -> Raise("InvalidOperation")

\* str.lower() on the strings of the model
py_lower(s) ==
    CASE s = "A" -> "a"
      [] s = "B" -> "b"
      [] OTHER -> s

\* bool(value) for a value that is neither bool nor str
py_bool(value) ==
    CASE value.t = "int"   -> value.n # 0
      [] value.t \in {"float", "decimal"} -> ~(value.x.k = "fin" /\ value.x.m = 0)
      [] value.t = "list"  -> FALSE
      [] OTHER             -> TRUE

\* the body of the try block of convert_data_type
convert_unguarded(value, target_type) ==
    CASE target_type = "string" ->
            IF value.t = "str"
            THEN IF py_strip(value.s) # "" THEN Ok(VStr(py_strip(value.s))) ELSE Ok(VNone)
            ELSE Ok(VStr(py_str(value)))
      [] target_type = "integer" ->
            IF value.t \in {"int", "bool"} THEN Ok(value)
            ELSE IF value.t \in {"float", "decimal"} THEN int_of_number(value.x)
            ELSE IF value.t = "str"
            THEN LET cleaned == remove_commas(py_strip(value.s)) IN
                 IF cleaned = "" THEN Ok(VNone)
                 ELSE IF py_float(cleaned).k = "err" THEN Raise("ValueError")
                 ELSE int_of_number(py_float(cleaned))
            ELSE Raise("TypeError")
      [] target_type = "decimal" ->
            IF value.t = "decimal" THEN Ok(value)
            ELSE IF value.t \in {"int", "bool", "float"} THEN decimal_of_number(value)
            ELSE IF value.t = "str"
            THEN LET cleaned == remove_dollars(remove_commas(py_strip(value.s))) IN
                 IF cleaned = "" THEN Ok(VNone)
                 ELSE IF py_decimal(cleaned).k = "err" THEN Raise("InvalidOperation")
                 ELSE Ok(VDecimal(py_decimal(cleaned)))
            ELSE Raise("InvalidOperation")
      [] target_type = "datetime" ->
            IF value.t = "datetime" THEN Ok(value)
            ELSE IF value.t = "str" /\ parse_datetime(value.s) # Nothing
            THEN Ok(VDatetime(parse_datetime(value.s)[1]))
            ELSE Raise("DataTransformationError")
      [] target_type = "boolean" ->
            IF value.t = "bool" THEN Ok(value)
            ELSE IF value.t = "str"
            THEN IF py_strip(py_lower(value.s)) \in {"true", "1", "yes", "y", "on"}
                 THEN Ok(VBool(TRUE))
                 ELSE IF py_strip(py_lower(value.s)) \in {"false", "0", "no", "n", "off"}
                 THEN Ok(VBool(FALSE))
                 ELSE Raise("DataTransformationError")
            ELSE Ok(VBool(py_bool(value)))
      [] OTHER -> Raise("DataTransformationError")

\* except (ValueError, InvalidOperation, TypeError): anything else passes
wrap_conversion_error(r) ==
    IF r.kind \in {"ValueError", "InvalidOperation", "TypeError"}
    THEN Raise("DataTransformationError")
    ELSE r

convert_data_type(value, target_type) ==
    IF value = VNone THEN Ok(VNone)
    ELSE wrap_conversion_error(convert_unguarded(value, target_type))

(***************************************************************************)
(* Field schema, validation and duplicate detection                        *)
(***************************************************************************)
REQUIRED_FIELDS == {F_listing_key, F_modification_timestamp}

FIELD_TYPE_MAPPINGS ==
    (F_listing_key :> {"str"})
    @@ (F_list_price :> {"int", "float", "Decimal", "NoneType"})
    @@ (F_property_type :> {"str", "NoneType"})
    @@ (F_bedrooms_total :> {"int", "NoneType"})
    @@ (F_bathrooms_total :> {"int", "float", "Decimal", "NoneType"})
    @@ (F_square_feet :> {"int", "NoneType"})
    @@ (F_lot_size_acres :> {"int", "float", "Decimal", "NoneType"})
    @@ (F_year_built :> {"int", "NoneType"})
    @@ (F_listing_status :> {"str", "NoneType"})
    @@ (F_modification_timestamp :> {"datetime"})
    @@ (F_street_address :> {"str", "NoneType"})
    @@ (F_city :> {"str", "NoneType"})
    @@ (F_state_or_province :> {"str", "NoneType"})
    @@ (F_postal_code :> {"str", "NoneType"})

\* the target type transform_record derives from the expected types
target_type_of(expected_types) ==
    IF "datetime" \in expected_types THEN "datetime"
    ELSE IF "Decimal" \in expected_types \/ "float" \in expected_types THEN "decimal"
    ELSE IF "int" \in expected_types THEN "integer"
    ELSE IF "bool" \in expected_types THEN "boolean"
    ELSE "string"

CurrentYear == 2026       \* datetime.now().year

PriceLimit == 1000000000  \* a list price above it is unusually high
BedroomLimit == 50        \* a bedroom count above it is unusually high

\* a variant that checks the required fields only
validate_required_fields_only(record) ==
    LET required(f, type, missing, null, wrong) ==
            IF f \notin DOMAIN record THEN <<missing>>
            ELSE IF record[f] = VNone THEN <<null>>
            ELSE IF record[f].t # type THEN <<wrong>>
            ELSE <<>>
    IN  required(F_listing_key, "str", "Missing required field: listing_key",
                 "Required field listing_key is null",
                 "Field listing_key has wrong type")
        \o required(F_modification_timestamp, "datetime",
                    "Missing required field: modification_timestamp",
                    "Required field modification_timestamp is null",
                    "Field modification_timestamp has wrong type")

\* float(price) > 1000000000, price in thousandths
price_is_high(x) ==
    \/ x.k = "inf"
    \/ /\ x.k = "fin"
       /\ \/ x.m \div 1000 > PriceLimit
          \/ (x.m \div 1000 = PriceLimit /\ x.m % 1000 > 0)

\* the warnings of validate_required_fields for a record transform_record has
\* converted, in order: every mapped column then holds None or a value of an
\* expected type, which leaves the warnings of the business rules
validation_warnings(record) ==
    (IF /\ F_list_price \in DOMAIN record
        /\ record[F_list_price] # VNone
        /\ record[F_list_price].t \in {"float", "decimal"}
        /\ ~(record[F_list_price].x.k = "-inf"
             \/ (record[F_list_price].x.k = "fin" /\ record[F_list_price].x.m < 0))
        /\ price_is_high(record[F_list_price].x)
     THEN <<"List price seems unusually high">> ELSE <<>>)
    \o (IF /\ F_bedrooms_total \in DOMAIN record
           /\ record[F_bedrooms_total] # VNone
           /\ record[F_bedrooms_total].t = "int"
           /\ record[F_bedrooms_total].n > BedroomLimit
        THEN <<"Unusually high bedroom count">> ELSE <<>>)

\* the errors of validate_required_fields, in order
validate_required_fields(record) ==
    LET required(f, type, missing, null, wrong) ==
            IF f \notin DOMAIN record THEN <<missing>>
            ELSE IF record[f] = VNone THEN <<null>>
            ELSE IF record[f].t # type THEN <<wrong>>
            ELSE <<>>
        price == IF F_list_price \in DOMAIN record /\ record[F_list_price] # VNone
                 THEN LET v == record[F_list_price] IN
                      IF v.t \in {"float", "decimal"}
                      THEN IF v.x.k = "-inf" \/ (v.x.k = "fin" /\ v.x.m < 0)
                           THEN <<"List price cannot be negative">> ELSE <<>>
                      ELSE IF v.t \in {"int", "bool"}
                      THEN IF v.t = "int" /\ v.n < 0
                           THEN <<"List price cannot be negative">> ELSE <<>>
                      ELSE <<"Invalid list price format">>
                 ELSE <<>>
        as_int(v) == IF v.t = "int" THEN v.n ELSE IF v.b THEN 1 ELSE 0
        year == IF F_year_built \in DOMAIN record /\ record[F_year_built] # VNone
                THEN LET v == record[F_year_built] IN
                     IF v.t \notin {"int", "bool"} THEN <<"Invalid year built format">>
                     ELSE IF as_int(v) < 1800 THEN <<"Year built too early">>
                     ELSE IF as_int(v) > CurrentYear + 5
                     THEN <<"Year built too far in future">>
                     ELSE <<>>
                ELSE <<>>
        beds == IF F_bedrooms_total \in DOMAIN record /\ record[F_bedrooms_total] # VNone
                THEN LET v == record[F_bedrooms_total] IN
                     IF v.t \notin {"int", "bool"} THEN <<"Invalid bedrooms format">>
                     ELSE IF as_int(v) < 0 THEN <<"Bedrooms cannot be negative">>
                     ELSE <<>>
                ELSE <<>>
    IN  required(F_listing_key, "str", "Missing required field: listing_key",
                 "Required field listing_key is null",
                 "Field listing_key has wrong type")
        \o required(F_modification_timestamp, "datetime",
                    "Missing required field: modification_timestamp",
                    "Required field modification_timestamp is null",
                    "Field modification_timestamp has wrong type")
        \o price \o year \o beds

detect_duplicate_forgets(record, existing_keys, seen) ==
    IF F_listing_key \notin DOMAIN record \/ record[F_listing_key] = VNone
    THEN [dup |-> FALSE, keys |-> seen]
    ELSE IF existing_keys # Nothing /\ py_str(record[F_listing_key]) \in existing_keys[1]
    THEN [dup |-> TRUE, keys |-> seen]
    ELSE [dup |-> py_str(record[F_listing_key]) \in seen, keys |-> seen]

\* detect_duplicate: [dup, keys] with keys the seen-key set afterwards
detect_duplicate(record, existing_keys, seen) ==
    IF F_listing_key \notin DOMAIN record \/ record[F_listing_key] = VNone
    THEN [dup |-> FALSE, keys |-> seen]
    ELSE LET listing_key == py_str(record[F_listing_key]) IN
         IF existing_keys # Nothing /\ listing_key \in existing_keys[1]
         THEN [dup |-> TRUE, keys |-> seen]
         ELSE IF listing_key \in seen THEN [dup |-> TRUE, keys |-> seen]
         ELSE [dup |-> FALSE, keys |-> seen \cup {listing_key}]

(***************************************************************************)
(* DataTransformer.transform_record and transform_batch                    *)
(***************************************************************************)
Put(d, k, v) == [x \in DOMAIN d \cup {k} |-> IF x = k THEN v ELSE d[x]]

F_is_duplicate == <<"_", "i", "s", "_", "d", "u", "p", "l", "i", "c", "a", "t", "e">>

\* an api record: a dict, as its items in order, or something else
Dict(items) == [dict |-> TRUE, items |-> items]
NotADict == [dict |-> FALSE, items |-> <<>>]

\* the target type transform_record converts a column to
target_type_for(db_field) ==
    IF db_field \in DOMAIN FIELD_TYPE_MAPPINGS
    THEN target_type_of(FIELD_TYPE_MAPPINGS[db_field])
    ELSE "string"

\* the loop over api_record.items(): [kind, msg, transformed, cache]
RECURSIVE transform_fields(_, _, _)
RECURSIVE field_normalized(_, _, _)
RECURSIVE field_converted(_, _, _, _, _)

transform_fields(items, transformed, cache) ==
    IF items = <<>>
    THEN [kind |-> "ok", msg |-> <<>>, transformed |-> transformed, cache |-> cache]
    ELSE IF items[1][1] # <<>> /\ items[1][1][1] \in {"@", "_"}
    THEN transform_fields(Tail(items), transformed, cache)
    ELSE field_normalized(items, transformed, normalize_field_name(items[1][1], cache))

\* the field items[1] with n the outcome of normalize_field_name
field_normalized(items, transformed, n) ==
    IF n.kind # "ok" THEN transform_fields(Tail(items), transformed, n.cache)
    ELSE field_converted(Tail(items), transformed, n.cache, n.name,
                         convert_data_type(items[1][2], target_type_for(n.name)))

\* the field db_field with c the outcome of convert_data_type
field_converted(rest, transformed, cache, db_field, c) ==
    IF c.kind = "ok" THEN transform_fields(rest, Put(transformed, db_field, c.v), cache)
    ELSE IF c.kind = "DataTransformationError"
    THEN IF db_field \notin DOMAIN FIELD_TYPE_MAPPINGS
         THEN transform_fields(rest, transformed, cache)
         ELSE IF db_field \notin REQUIRED_FIELDS
         THEN transform_fields(rest, Put(transformed, db_field, VNone), cache)
         ELSE [kind |-> "ValidationError",
               msg |-> <<"Required field conversion failed:">>,
               transformed |-> transformed, cache |-> cache]
    ELSE [kind |-> c.kind, msg |-> <<>>, transformed |-> transformed, cache |-> cache]

RecordFailed(kind, msg, cache, seen) ==
    [kind |-> kind, msg |-> msg, record |-> EmptyDict, cache |-> cache, seen |-> seen]

\* transformed['_is_duplicate'] = is_duplicate; return transformed
record_stamped(f, d) ==
    [kind |-> "ok", msg |-> <<>>,
     record |-> Put(f.transformed, F_is_duplicate, VBool(d.dup)),
     cache |-> f.cache, seen |-> d.keys]

\* the record after validation, errors being the validation errors
record_validated(f, errors, existing_keys, seen) ==
    IF errors # <<>>
    THEN RecordFailed("ValidationError", <<"Record validation failed:">> \o errors,
                      f.cache, seen)
    ELSE record_stamped(f, detect_duplicate(f.transformed, existing_keys, seen))

\* the record after the field loop, f being its outcome
record_checked(f, existing_keys, seen) ==
    IF f.kind # "ok" THEN RecordFailed(f.kind, f.msg, f.cache, seen)
    ELSE record_validated(f, validate_required_fields(f.transformed), existing_keys, seen)

\* transform_record: [kind, msg, record, cache, seen]
transform_record(api_record, existing_keys, cache, seen) ==
    IF ~api_record.dict
    THEN RecordFailed("DataTransformationError", <<"Expected dict, got">>, cache, seen)
    ELSE record_checked(transform_fields(api_record.items, EmptyDict, cache),
                        existing_keys, seen)

F_at_odata_id == <<"@", "o", "d", "a", "t", "a", ".", "i", "d">>
F_ListingKey == <<"L", "i", "s", "t", "i", "n", "g", "K", "e", "y">>
F_Modification_Timestamp ==
    <<"M", "o", "d", "i", "f", "i", "c", "a", "t", "i", "o", "n", "-",
      "T", "i", "m", "e", "s", "t", "a", "m", "p">>

\* the records a caller passes in
ApiRecords ==
    { Dict(<<
        <<F_listing_key, VStr("A")>>,
        <<F_Modification_Timestamp, VStr("2024-01-15T10:30:00Z")>>,
        <<F_list_price, VStr("$450,000")>> >>),
      Dict(<<
        <<F_at_odata_id, VStr("abc")>>,
        <<F_listing_key, VStr("B")>>,
        <<F_modification_timestamp, VStr("2024-02-01 08:00:00")>>,
        <<F_bedrooms_total, VStr(" 3 ")>> >>),
      Dict(<<
        <<F_ListingKey, VStr("A")>>,
        <<F_modification_timestamp, VStr("2024-01-15T10:30:00Z")>> >>),
      Dict(<<
        <<F_listing_key, VStr("A")>>,
        <<F_modification_timestamp, VStr("2024-01-15T10:30:00Z")>>,
        <<F_bedrooms_total, VStr("abc")>> >>),
      Dict(<<
        <<F_listing_key, VStr("B")>>,
        <<F_modification_timestamp, VStr("2024-01-15T10:30:00Z")>>,
        <<F_bedrooms_total, VStr("inf")>> >>),
      NotADict }

MaxBatch == 2             \* a batch holds at most this many records

RECURSIVE Batches(_)
Batches(n) ==
    IF n = 0 THEN {<<>>}
    ELSE Batches(n - 1) \cup {Append(b, r) : b \in Batches(n - 1), r \in ApiRecords}

ExistingKeys == {Nothing, Some({"A"})}

\* the columns of a transformed record that count as field transformations
CountedFields(record) == {f \in DOMAIN record : f[1] # "_"}

\* the frame of a transform_batch call entered with the seen-key set seen
BatchFrame(api_records, existing_keys, continue_on_error, seen) ==
    [api_records |-> api_records, existing_keys |-> existing_keys,
     continue_on_error |-> continue_on_error, i |-> 0,
     transformed_records |-> <<>>, validation_errors |-> <<>>,
     field_transformations |-> EmptyDict, seen_at_call |-> seen]

transform_batch_keeps_seen(api_records, existing_keys, continue_on_error) ==
    /\ pcT = "idle"
    /\ batch' = BatchFrame(api_records, existing_keys, continue_on_error, duplicate_keys)
    /\ batch_result' = NoBatchResult
    /\ pcT' = "loop"
    /\ dup_calls' = <<>>
    /\ UNCHANGED <<field_name_cache, duplicate_keys>>
    /\ UNCHANGED <<client_vars, sync_vars, run_vars, call_vars>>

\* transform_batch up to its loop: fresh accumulators, duplicate cache cleared
transform_batch(api_records, existing_keys, continue_on_error) ==
    /\ pcT = "idle"
    /\ duplicate_keys' = {}
    /\ batch' = BatchFrame(api_records, existing_keys, continue_on_error, duplicate_keys)
    /\ batch_result' = NoBatchResult
    /\ pcT' = "loop"
    /\ dup_calls' = <<>>
    /\ UNCHANGED field_name_cache
    /\ UNCHANGED <<client_vars, sync_vars, run_vars, call_vars>>

\* field_transformations after counting the columns of one more record
count_fields(ft, fields) ==
    [f \in DOMAIN ft \cup fields |->
        IF f \in fields THEN (IF f \in DOMAIN ft THEN ft[f] ELSE 0) + 1 ELSE ft[f]]

BatchRaised(exc) == [type |-> "raised", exc |-> exc, records |-> <<>>, stats |-> NoStats]

loop_body_keeps_going(r) ==
    /\ field_name_cache' = r.cache
    /\ duplicate_keys' = r.seen
    /\ UNCHANGED <<batch_result, pcT>>
    /\ IF r.kind = "ok"
       THEN batch' = [batch EXCEPT
                  !.i = @ + 1,
                  !.transformed_records = Append(@, r.record),
                  !.field_transformations = count_fields(@, CountedFields(r.record))]
       ELSE batch' = [batch EXCEPT
                  !.i = @ + 1,
                  !.validation_errors = Append(@, [record |-> batch.i, text |-> r.msg])]

\* the body of the loop, r being the outcome of transform_record
loop_body(r) ==
    /\ field_name_cache' = r.cache
    /\ duplicate_keys' = r.seen
    /\ IF r.kind = "ok"
       THEN /\ batch' = [batch EXCEPT
                  !.i = @ + 1,
                  !.transformed_records = Append(@, r.record),
                  !.field_transformations = count_fields(@, CountedFields(r.record))]
            /\ UNCHANGED <<batch_result, pcT>>
       ELSE IF r.kind \in {"DataTransformationError", "ValidationError"}
       THEN /\ batch' = [batch EXCEPT
                  !.i = @ + 1,
                  !.validation_errors = Append(@, [record |-> batch.i, text |-> r.msg])]
            /\ IF batch.continue_on_error
               THEN UNCHANGED <<batch_result, pcT>>
               ELSE /\ batch_result' = BatchRaised("DataTransformationError")
                    /\ pcT' = "idle"
       ELSE /\ batch_result' = BatchRaised(r.kind)
            /\ pcT' = "idle"
            /\ UNCHANGED batch

\* one iteration of the loop of transform_batch
BatchStep ==
    /\ pcT = "loop"
    /\ batch.i < Len(batch.api_records)
    /\ loop_body(transform_record(batch.api_records[batch.i + 1], batch.existing_keys,
                                  field_name_cache, duplicate_keys))
    /\ UNCHANGED dup_calls
    /\ UNCHANGED <<client_vars, sync_vars, run_vars, call_vars>>

batch_stats_total_valid(api_records, transformed_records, ft, errors) ==
    [total_records |-> Len(transformed_records),
     valid_records |-> Len(transformed_records),
     invalid_records |-> 0,
     duplicates_detected |->
        Cardinality({j \in 1..Len(transformed_records) :
                        transformed_records[j][F_is_duplicate] = VBool(TRUE)}),
     field_transformations |-> ft,
     validation_errors |-> errors]

\* TransformationStats as transform_batch calculates it
batch_stats(api_records, transformed_records, ft, errors) ==
    [total_records |-> Len(api_records),
     valid_records |-> Len(transformed_records),
     invalid_records |-> Len(api_records) - Len(transformed_records),
     duplicates_detected |->
        Cardinality({j \in 1..Len(transformed_records) :
                        transformed_records[j][F_is_duplicate] = VBool(TRUE)}),
     field_transformations |-> ft,
     validation_errors |-> errors]

\* the statistics and the return of transform_batch
BatchReturn ==
    /\ pcT = "loop"
    /\ batch.i = Len(batch.api_records)
    /\ batch_result' =
            [type |-> "returned", exc |-> "",
             records |-> batch.transformed_records,
             stats |-> batch_stats(batch.api_records, batch.transformed_records,
                                   batch.field_transformations, batch.validation_errors)]
    /\ pcT' = "idle"
    /\ UNCHANGED <<field_name_cache, duplicate_keys, batch, dup_calls>>
    /\ UNCHANGED <<client_vars, sync_vars, run_vars, call_vars>>

\* clear_duplicate_cache()
clear_duplicate_cache ==
    /\ pcT = "idle"
    /\ duplicate_keys # {} \/ dup_calls # <<>>
    /\ duplicate_keys' = {}
    /\ dup_calls' = <<>>
    /\ UNCHANGED <<field_name_cache, batch, batch_result, pcT>>
    /\ UNCHANGED <<client_vars, sync_vars, run_vars, call_vars>>

BatchCall ==
    \E b \in Batches(MaxBatch), ek \in ExistingKeys, coe \in BOOLEAN :
        transform_batch(b, ek, coe)

\* batches of records through the transformer
NextBatch ==
    \/ BatchCall
    \/ BatchStep
    \/ BatchReturn
    \/ clear_duplicate_cache

InitBatch == Init /\ max_retries = 0

SpecBatch == InitBatch /\ [][NextBatch]_vars

(***************************************************************************)
(* Claims about the transformer                                            *)
(***************************************************************************)
\* a transform_batch call has ended, by return or by exception
BatchDone == pcT = "idle" /\ batch_result # NoBatchResult

\* C10: with continue_on_error = TRUE a batch never raises: whenever the call
\* has ended it has returned, every record was visited, and the records and
\* the "Record i" messages together account for every input record.
C10_ContinueOnErrorNeverRaises ==
    (BatchDone /\ batch.continue_on_error) =>
        /\ batch_result.type = "returned"
        /\ batch.i = Len(batch.api_records)
        /\ Len(batch_result.records) + Len(batch_result.stats.validation_errors)
             = Len(batch.api_records)
        /\ \A j \in 1..Len(batch.validation_errors) :
             \A k \in 1..Len(batch.validation_errors) :
                batch.validation_errors[j].record = batch.validation_errors[k].record
                    => j = k

Fails(api_record) == transform_record(api_record, Nothing, EmptyDict, {}).kind # "ok"

FailingIndexes(api_records) ==
    {j \in 1..Len(api_records) : Fails(api_records[j])}

FirstFailure(api_records) ==
    CHOOSE j \in FailingIndexes(api_records) :
        \A k \in FailingIndexes(api_records) : j <= k

\* C12: with continue_on_error = FALSE the batch raises at the first failing
\* record: the loop never passes it, the records before it are the only ones
\* transformed, and nothing is returned.
C12_StopsAtFirstFailure ==
    (~batch.continue_on_error /\ FailingIndexes(batch.api_records) # {}) =>
        /\ batch.i <= FirstFailure(batch.api_records)
        /\ Len(batch.transformed_records) < FirstFailure(batch.api_records)
        /\ BatchDone =>
              /\ batch_result.type = "raised"
              /\ batch_result.records = <<>>
              /\ Len(batch.transformed_records) = FirstFailure(batch.api_records) - 1
              /\ Len(batch.validation_errors) <= 1

\* the first record fails and a good record after it is left untouched
C12_Witness ==
    /\ BatchDone /\ ~batch.continue_on_error
    /\ batch_result.type = "raised"
    /\ Len(batch.api_records) = 2
    /\ FailingIndexes(batch.api_records) = {1}
    /\ batch.transformed_records = <<>>

(***************************************************************************)
(* Direct calls of detect_duplicate                                        *)
(***************************************************************************)
MaxDetectCalls == 4       \* detect_duplicate calls recorded between two clears

\* the records handed to detect_duplicate: key A, key B, a null key, no key
DupRecords ==
    { (F_listing_key :> VStr("A")),
      (F_listing_key :> VStr("B")),
      (F_listing_key :> VNone),
      EmptyDict }

\* the result of detect_duplicate, given what it returned
remember_call(record, existing_keys, d) ==
    /\ duplicate_keys' = d.keys
    /\ dup_calls' = Append(dup_calls, [record |-> record, existing_keys |-> existing_keys,
                                       result |-> d.dup])

detect_duplicate_call(record, existing_keys) ==
    /\ pcT = "idle"
    /\ Len(dup_calls) < MaxDetectCalls
    /\ remember_call(record, existing_keys,
                     detect_duplicate(record, existing_keys, duplicate_keys))
    /\ UNCHANGED <<field_name_cache, batch, batch_result, pcT>>
    /\ UNCHANGED <<client_vars, sync_vars, run_vars, call_vars>>

DetectCall ==
    \E record \in DupRecords, ek \in ExistingKeys : detect_duplicate_call(record, ek)

\* detect_duplicate and clear_duplicate_cache called directly
NextDup ==
    \/ DetectCall
    \/ clear_duplicate_cache

SpecDup == InitBatch /\ [][NextDup]_vars

\* the record carries a listing key
Carries(record) == F_listing_key \in DOMAIN record /\ record[F_listing_key] # VNone

\* no call since the clear was given a set of existing keys
OnlySeenKeys == \A n \in DOMAIN dup_calls : dup_calls[n].existing_keys = Nothing

\* the listing keys of the records transformed so far in this batch, less
\* those the caller passed as existing_keys
KeysTransformed ==
    {py_str(batch.transformed_records[j][F_listing_key]) :
        j \in DOMAIN batch.transformed_records}
    \ (IF batch.existing_keys = Nothing THEN {} ELSE batch.existing_keys[1])

\* C37: at every point during a transform_batch call the seen-key set equals
\* the set of listing keys of the records already transformed successfully in
\* this batch whose key is not in existing_keys; a record that fails
\* validation, has no key, or matches existing_keys never adds a key.
C37_SeenKeysAreTransformedKeys ==
    pcT = "loop" => duplicate_keys = KeysTransformed

\* one record matched existing_keys, the other was new: only the new key is seen
C37_Witness ==
    /\ pcT = "loop"
    /\ batch.existing_keys = Some({"A"})
    /\ Len(batch.transformed_records) = 2
    /\ duplicate_keys = {"B"}

\* a record failed and left the seen keys as they were
C37_WitnessFailed ==
    /\ pcT = "loop"
    /\ batch.i = 2
    /\ Len(batch.validation_errors) = 1
    /\ duplicate_keys = {"A"}

\* C13: from a cleared cache, a detect_duplicate call on a record carrying a key
\* returns FALSE exactly when no earlier call since the clear carried that key,
\* and TRUE for every later occurrence.
C13_FirstOccurrenceOnly ==
    OnlySeenKeys =>
        \A n \in DOMAIN dup_calls :
            Carries(dup_calls[n].record) =>
                (dup_calls[n].result <=>
                    \E m \in 1..(n - 1) :
                        /\ Carries(dup_calls[m].record)
                        /\ dup_calls[m].record[F_listing_key]
                             = dup_calls[n].record[F_listing_key])

\* keys A, B, A, A give FALSE, FALSE, TRUE, TRUE
C13_Witness ==
    /\ OnlySeenKeys
    /\ Len(dup_calls) = 4
    /\ \A n \in 1..4 : Carries(dup_calls[n].record)
    /\ [n \in 1..4 |-> dup_calls[n].record[F_listing_key]]
         = <<VStr("A"), VStr("B"), VStr("A"), VStr("A")>>
    /\ [n \in 1..4 |-> dup_calls[n].result] = <<FALSE, FALSE, TRUE, TRUE>>

(***************************************************************************)
(* Batches on a transformer that has been used before                      *)
(***************************************************************************)
\* the effect of transform_record on the transformer, r being its outcome
record_effect(r) ==
    /\ field_name_cache' = r.cache
    /\ duplicate_keys' = r.seen

\* transform_record called directly
transform_record_call(api_record, existing_keys) ==
    /\ pcT = "idle"
    /\ record_effect(transform_record(api_record, existing_keys, field_name_cache,
                                      duplicate_keys))
    /\ UNCHANGED <<batch, batch_result, pcT, dup_calls>>
    /\ UNCHANGED <<client_vars, sync_vars, run_vars, call_vars>>

RecordCall ==
    \E r \in ApiRecords, ek \in ExistingKeys : transform_record_call(r, ek)

\* the direct calls a caller makes before its first batch
EarlierCalls ==
    /\ batch_result = NoBatchResult
    /\ dup_calls = <<>>
    /\ (RecordCall \/ DetectCall)

\* direct calls of transform_record and detect_duplicate, then batches
NextHistory ==
    \/ EarlierCalls
    \/ BatchCall
    \/ BatchStep
    \/ BatchReturn

SpecHistory == InitBatch /\ [][NextHistory]_vars

\* the records transform_batch returns on a transformer never used before
RECURSIVE FreshRecords(_, _, _, _)
FreshNext(r, rest, existing_keys) ==
    (IF r.kind = "ok" THEN <<r.record>> ELSE <<>>)
    \o FreshRecords(rest, existing_keys, r.cache, r.seen)

FreshRecords(api_records, existing_keys, cache, seen) ==
    IF api_records = <<>> THEN <<>>
    ELSE FreshNext(transform_record(Head(api_records), existing_keys, cache, seen),
                   Tail(api_records), existing_keys)

Duplicates(records) ==
    Cardinality({j \in 1..Len(records) : records[j][F_is_duplicate] = VBool(TRUE)})

\* C14: transform_batch starts its first record with an empty seen-key set, and
\* the records (with their _is_duplicate flags) and the stats it returns are
\* those of a transformer never used before, whatever calls came earlier.
C14_BatchIndependentOfHistory ==
    /\ (pcT = "loop" /\ batch.i = 0) => duplicate_keys = {}
    /\ (BatchDone /\ batch_result.type = "returned") =>
          /\ batch_result.records
               = FreshRecords(batch.api_records, batch.existing_keys, EmptyDict, {})
          /\ batch_result.stats.duplicates_detected
               = Duplicates(FreshRecords(batch.api_records, batch.existing_keys,
                                         EmptyDict, {}))
          /\ batch_result.stats.valid_records
               = Len(FreshRecords(batch.api_records, batch.existing_keys, EmptyDict, {}))

\* key A had been seen before the call, and the batch still reports its first
\* record with key A as no duplicate
C14_Witness ==
    /\ BatchDone /\ batch_result.type = "returned"
    /\ batch.existing_keys = Nothing
    /\ "A" \in batch.seen_at_call
    /\ Len(batch_result.records) = 2
    /\ batch_result.records[1][F_listing_key] = VStr("A")
    /\ batch_result.records[1][F_is_duplicate] = VBool(FALSE)
    /\ batch_result.records[2][F_is_duplicate] = VBool(TRUE)

(***************************************************************************)
(* Direct calls of transform_record on records that break a business rule  *)
(* or hold a value that cannot be converted (SpecRecord).  Each call is on  *)
(* a transformer of its own.                                               *)
(***************************************************************************)
OptionalValues(f, values) == {<<>>} \cup {<< <<f, v>> >> : v \in values}

RuleRecords ==
    {Dict(<< <<F_listing_key, VStr("A")>>, <<F_modification_timestamp, VStr(ts)>> >>
          \o price \o beds \o year) :
        ts \in {"2024-01-15T10:30:00Z", "bad-date"},
        price \in OptionalValues(F_list_price,
                    {VStr("-5"), VStr("inf"), VStr("$450,000"), VStr("abc")}),
        beds \in OptionalValues(F_bedrooms_total,
                    {VStr("-5"), VInt(BedroomLimit + 1), VInt(BedroomLimit),
                     VStr("abc"), VStr("inf")}),
        year \in OptionalValues(F_year_built,
                    {VInt(1799), VInt(1800), VInt(CurrentYear + 5),
                     VInt(CurrentYear + 6)})}

\* for warning in validation_result.warnings: self.logger.warning(...)
logged_warnings(r) == IF r.kind = "ok" THEN validation_warnings(r.record) ELSE <<>>

TransformRecordCall ==
    \E api_record \in RuleRecords :
        /\ pcT = "idle"
        /\ calls = <<>>
        /\ record_effect(transform_record(api_record, Nothing, field_name_cache,
                                          duplicate_keys))
        /\ calls' = <<[op |-> "transform_record",
                       args |-> <<api_record>>,
                       out |-> [kind |-> transform_record(api_record, Nothing,
                                           field_name_cache, duplicate_keys).kind,
                               record |-> transform_record(api_record, Nothing,
                                           field_name_cache, duplicate_keys).record],
                       warnings |-> logged_warnings(
                                       transform_record(api_record, Nothing,
                                           field_name_cache, duplicate_keys))]>>
        /\ UNCHANGED <<batch, batch_result, pcT, dup_calls>>
        /\ UNCHANGED <<client_vars, sync_vars, run_vars>>

NextRecord == TransformRecordCall

SpecRecord == InitBatch /\ [][NextRecord]_vars

\* the value given for a column, if any
Given(api_record, f) ==
    IF \E i \in DOMAIN api_record.items : api_record.items[i][1] = f
    THEN Some(api_record.items[CHOOSE i \in DOMAIN api_record.items :
                                  api_record.items[i][1] = f][2])
    ELSE Nothing

GivenColumns(api_record) == {api_record.items[i][1] : i \in DOMAIN api_record.items}

\* the conversion of the value given for column f fails
CoercionFails(api_record, f) ==
    convert_data_type(Given(api_record, f)[1], target_type_for(f)).kind # "ok"

\* the record with every column converted, a failed conversion giving null
Degraded(api_record) ==
    [f \in GivenColumns(api_record) |->
        IF CoercionFails(api_record, f) THEN VNone
        ELSE convert_data_type(Given(api_record, f)[1], target_type_for(f)).v]

\* C29: in transform_record, a coercion failure on a required field
\* (listing_key, modification_timestamp) fails the whole record with
\* ValidationError, while a coercion failure on any other field sets only that
\* field to null and the record is still returned if it otherwise validates.
C29_OnlyRequiredCoercionFailsRecord ==
    \A i \in 1..Len(calls) :
        calls[i].op = "transform_record" =>
            IF \E f \in REQUIRED_FIELDS \cap GivenColumns(calls[i].args[1]) :
                   CoercionFails(calls[i].args[1], f)
            THEN calls[i].out.kind = "ValidationError"
            ELSE IF validate_required_fields(Degraded(calls[i].args[1])) = <<>>
            THEN /\ calls[i].out.kind = "ok"
                 /\ \A f \in GivenColumns(calls[i].args[1]) :
                        calls[i].out.record[f] = Degraded(calls[i].args[1])[f]
            ELSE calls[i].out.kind = "ValidationError"

\* what the caller gave, read off the argument
NegativePrice(api_record) == Given(api_record, F_list_price) = Some(VStr("-5"))

NegativeBedrooms(api_record) == Given(api_record, F_bedrooms_total) = Some(VStr("-5"))

YearOutOfRange(api_record) ==
    /\ Given(api_record, F_year_built) # Nothing
    /\ \/ Given(api_record, F_year_built)[1].n < 1800
       \/ Given(api_record, F_year_built)[1].n > CurrentYear + 5

HighPrice(api_record) == Given(api_record, F_list_price) = Some(VStr("inf"))

HighBedrooms(api_record) ==
    /\ Given(api_record, F_bedrooms_total) # Nothing
    /\ Given(api_record, F_bedrooms_total)[1].t = "int"
    /\ Given(api_record, F_bedrooms_total)[1].n > 50

BreaksRule(api_record) ==
    NegativePrice(api_record) \/ NegativeBedrooms(api_record) \/ YearOutOfRange(api_record)

ExpectedWarnings(api_record) ==
    (IF HighPrice(api_record) THEN <<"List price seems unusually high">> ELSE <<>>)
    \o (IF HighBedrooms(api_record) THEN <<"Unusually high bedroom count">> ELSE <<>>)

MaxNormalizeCalls == 3    \* calls of normalize_field_name on one transformer

PyStr(chars) == [type |-> "str", value |-> chars]
PyNone == [type |-> "NoneType", value |-> <<>>]
PyInt(chars) == [type |-> "int", value |-> chars]

Rep(c, n) == [i \in 1..n |-> c]

\* names with capitals, separators, a leading digit, reserved words, no word
\* character at all, and names longer than a column name may be
FieldNames ==
    { <<"L", "i", "s", "t", "P", "r", "i", "c", "e">>,
      <<"l", "i", "s", "t", " ", "p", "r", "i", "c", "e">>,
      <<"S", "e", "l", "e", "c", "t">>,
      <<"O", "R", "D", "E", "R">>,
      <<"y", "e", "a", "r", "_", "m", "o", "n", "t", "h">>,
      <<"9", "l", "i", "v", "e", "s">>,
      <<"*", "*", "*">>,
      <<"_", "i", "d", "_">>,
      Rep("a", 70),
      Rep("a", 63) \o <<"_", "x">>,
      Rep("a", 57) \o <<"_", "b", "_", "f", "i", "e", "l", "d">>,
      Rep("9", 64),
      <<>>,
      <<" ", "\t">> }

NameArgs == {PyStr(n) : n \in FieldNames} \cup {PyNone, PyInt(<<"5">>)}

\* normalize_field_name on any value: a value that is not a str is rejected
\* before the cache is looked at
normalize_field_name_of(arg, cache) ==
    IF arg.type # "str"
    THEN [kind |-> "DataTransformationError", name |-> <<>>, cache |-> cache]
    ELSE normalize_field_name(arg.value, cache)

ReturnedNames ==
    {PyStr(calls[i].out.name) : i \in {j \in 1..Len(calls) : calls[j].out.kind = "ok"}}

NormalizeCall ==
    \E arg \in NameArgs \cup ReturnedNames :
        /\ pcT = "idle"
        /\ Len(calls) < MaxNormalizeCalls
        /\ field_name_cache' = normalize_field_name_of(arg, field_name_cache).cache
        /\ calls' = Append(calls,
               [op |-> "normalize_field_name",
                args |-> <<arg>>,
                out |-> [kind |-> normalize_field_name_of(arg, field_name_cache).kind,
                         name |-> normalize_field_name_of(arg, field_name_cache).name],
                before |-> field_name_cache,
                after |-> normalize_field_name_of(arg, field_name_cache).cache])
        /\ UNCHANGED <<duplicate_keys, batch, batch_result, pcT, dup_calls>>
        /\ UNCHANGED <<client_vars, sync_vars, run_vars>>

NextNormalize == NormalizeCall

SpecNormalize == InitBatch /\ [][NextNormalize]_vars

NormalizeReturned(i) ==
    calls[i].op = "normalize_field_name" /\ calls[i].out.kind = "ok"

\* C24: normalize_field_name is idempotent: for every input x on which it does
\* not raise, normalize_field_name(normalize_field_name(x)) =
\* normalize_field_name(x), including inputs whose normalized form is truncated
\* to the length limit or suffixed because of a reserved word.
C24_NormalizeIdempotent ==
    \A i, j \in 1..Len(calls) :
        (/\ i < j
         /\ NormalizeReturned(i)
         /\ calls[j].op = "normalize_field_name"
         /\ calls[j].args[1] = PyStr(calls[i].out.name)) =>
            /\ calls[j].out.kind = "ok"
            /\ calls[j].out.name = calls[i].out.name

IsIdentifier(n) ==
    /\ n # <<>>
    /\ n[1] \in Letters \cup {"_"}
    /\ \A k \in DOMAIN n : n[k] \in Letters \cup Digits \cup {"_"}

\* C25: for every input on which normalize_field_name does not raise, its
\* output is non-empty, starts with a letter or underscore, contains only
\* letters, digits and underscores, has length at most 64, and is not a member
\* of the reserved-word denylist.
C25_OutputIsValidColumnName ==
    \A i \in 1..Len(calls) :
        NormalizeReturned(i) =>
            /\ IsIdentifier(calls[i].out.name)
            /\ Len(calls[i].out.name) <= 64
            /\ calls[i].out.name \notin MYSQL_RESERVED_WORDS

\* a reserved word in capitals, a name of 70 characters and a name without a
\* word character have all been normalized
C25_Witness ==
    /\ Len(calls) = 3
    /\ calls[1].args[1] = PyStr(<<"O", "R", "D", "E", "R">>)
    /\ calls[1].out = [kind |-> "ok", name |-> <<"o", "r", "d", "e", "r", "_", "f", "i", "e", "l", "d">>]
    /\ calls[2].args[1] = PyStr(Rep("a", 70))
    /\ calls[2].out = [kind |-> "ok", name |-> Rep("a", 64)]
    /\ calls[3].args[1] = PyStr(<<"*", "*", "*">>)
    /\ calls[3].out = [kind |-> "ok", name |-> Name_field_unknown]

\* C26: the field-name cache only ever holds entries input -> output of
\* successful normalize_field_name calls: a call that raises
\* DataTransformationError adds no entry, a repeated call with the same input
\* returns the identical output, and an input that fails once fails on every
\* later call.
C26_CacheHoldsOnlySuccesses ==
    /\ \A x \in DOMAIN field_name_cache :
            \E i \in 1..Len(calls) :
                /\ NormalizeReturned(i)
                /\ calls[i].args[1] = PyStr(x)
                /\ calls[i].out.name = field_name_cache[x]
    /\ \A i \in 1..Len(calls) :
            (calls[i].op = "normalize_field_name"
             /\ calls[i].out.kind = "DataTransformationError") =>
                calls[i].after = calls[i].before
    /\ \A i, j \in 1..Len(calls) :
            (/\ calls[i].op = "normalize_field_name"
             /\ calls[j].op = "normalize_field_name"
             /\ calls[i].args = calls[j].args) => calls[i].out = calls[j].out

\* a rejected input is given twice, around a call that fills the cache
C26_Witness ==
    /\ Len(calls) = 3
    /\ calls[1].args[1] = PyStr(<<" ", "\t">>)
    /\ calls[1].out.kind = "DataTransformationError"
    /\ calls[2].args[1] = PyStr(<<"L", "i", "s", "t", "P", "r", "i", "c", "e">>)
    /\ calls[2].out.kind = "ok"
    /\ calls[3] = [calls[1] EXCEPT !.before = calls[2].after, !.after = calls[2].after]
    /\ DOMAIN field_name_cache = {<<"L", "i", "s", "t", "P", "r", "i", "c", "e">>}

(***************************************************************************)
(* Direct calls of build_odata_url (SpecUrl).  The function reads only its *)
(* arguments and the configured base URL, so a behaviour is one call.      *)
(***************************************************************************)
UrlFilters ==
    { Nothing,
      Some(<<>>),
      Some(<<"City", " ", "eq", " ", "'", "Reno", "'">>),
      Some(<<"A", "&", "B", "=", "1", "+", "2">>) }

UrlSelects ==
    {Nothing, Some(<<>>), Some(<<"ListingKey">>), Some(<<"ListingKey", "ListPrice">>)}

UrlTops == {Nothing, Some(0), Some(5), Some(1000)}

UrlSkips == {Nothing, Some(0), Some(5)}

UrlOrderbys == {Nothing, Some(<<>>), Some(<<"ModificationTimestamp", " ", "desc">>)}

BuildODataUrlCall ==
    \E filter_expr \in UrlFilters, select_fields \in UrlSelects, top \in UrlTops,
       skip \in UrlSkips, orderby \in UrlOrderbys :
        /\ calls = <<>>
        /\ calls' = <<[op |-> "build_odata_url",
                       args |-> <<filter_expr, select_fields, top, skip, orderby>>,
                       out |-> build_odata_url("Property", filter_expr, select_fields,
                                               top, skip, orderby)]>>
        /\ UNCHANGED <<client_vars, transformer_vars, sync_vars, run_vars>>

NextUrl == BuildODataUrlCall

SpecUrl == InitBatch /\ [][NextUrl]_vars

\* what a server reads back from one token of a query string
unquote_plus(tok) ==
    CASE tok = "%24filter"  -> "$filter"
      [] tok = "%24select"  -> "$select"
      [] tok = "%24top"     -> "$top"
      [] tok = "%24skip"    -> "$skip"
      [] tok = "%24orderby" -> "$orderby"
      [] tok = "+"          -> " "
      [] tok = "%2C"        -> ","
      [] tok = "%27"        -> "'"
      [] tok = "%26"        -> "&"
      [] tok = "%3D"        -> "="
      [] tok = "%2B"        -> "+"
      [] OTHER              -> tok

\* the parameters of a URL as the server reads them: <<name, value text>>
ParamsOf(u) ==
    [i \in DOMAIN u.query |->
        <<unquote_plus(u.query[i][1]),
          [j \in DOMAIN u.query[i][2] |-> unquote_plus(u.query[i][2][j])]>>]

TimesEmitted(u, name) ==
    Cardinality({i \in DOMAIN u.query : ParamsOf(u)[i][1] = name})

ValueOf(u, name) ==
    ParamsOf(u)[CHOOSE i \in DOMAIN u.query : ParamsOf(u)[i][1] = name][2]

DecimalText == (0 :> "0") @@ (5 :> "5") @@ (1000 :> "1000")

CommaJoined(fields) ==
    [i \in 1..(2 * Len(fields) - 1) |-> IF i % 2 = 1 THEN fields[(i + 1) \div 2] ELSE ","]

\* a text or list argument is present when it is given and not empty, a number
\* when it is given
Present(arg) == arg # Nothing /\ arg[1] # <<>>

EmittedOnce(u, name, present, value) ==
    IF present THEN TimesEmitted(u, name) = 1 /\ ValueOf(u, name) = value
    ELSE TimesEmitted(u, name) = 0

UrlContract(filter_expr, select_fields, top, skip, orderby, u) ==
    /\ EmittedOnce(u, "$filter", Present(filter_expr),
                   IF Present(filter_expr) THEN filter_expr[1] ELSE <<>>)
    /\ EmittedOnce(u, "$select", Present(select_fields),
                   IF Present(select_fields) THEN CommaJoined(select_fields[1]) ELSE <<>>)
    /\ EmittedOnce(u, "$top", top # Nothing,
                   IF top # Nothing THEN <<DecimalText[top[1]]>> ELSE <<>>)
    /\ EmittedOnce(u, "$skip", skip # Nothing,
                   IF skip # Nothing THEN <<DecimalText[skip[1]]>> ELSE <<>>)
    /\ EmittedOnce(u, "$orderby", Present(orderby),
                   IF Present(orderby) THEN orderby[1] ELSE <<>>)
    /\ \A i \in DOMAIN u.query :
           ParamsOf(u)[i][1] \in {"$filter", "$select", "$top", "$skip", "$orderby"}
    /\ (~Present(filter_expr) /\ ~Present(select_fields) /\ top = Nothing
        /\ skip = Nothing /\ ~Present(orderby)) => UrlText(u) = <<u.base>>

\* C28: build_odata_url emits each of $filter, $select (comma-joined), $top,
\* $skip and $orderby exactly once with the exact given value when its argument
\* is present, and emits no parameter (not even an empty one) for an absent
\* argument; with no arguments the URL has no query string.
C28_UrlHasExactlyTheGivenParameters ==
    \A i \in 1..Len(calls) :
        calls[i].op = "build_odata_url" =>
            UrlContract(calls[i].args[1], calls[i].args[2], calls[i].args[3],
                        calls[i].args[4], calls[i].args[5], calls[i].out)

\* a filter with reserved characters, two select fields, top 0 and no orderby
C28_Witness ==
    /\ Len(calls) = 1
    /\ calls[1].op = "build_odata_url"
    /\ calls[1].args = <<Some(<<"A", "&", "B", "=", "1", "+", "2">>),
                         Some(<<"ListingKey", "ListPrice">>), Some(0), Nothing, Nothing>>
    /\ UrlText(calls[1].out) =
           <<"Property", "?",
             "%24filter", "=", "A", "%26", "B", "%3D", "1", "%2B", "2", "&",
             "%24select", "=", "ListingKey", "%2C", "ListPrice", "&",
             "%24top", "=", "0">>

(***************************************************************************)
(* IncrementalSyncManager (trestle_etl/incremental_sync.py)                *)
(* A filter expression and an error text are sequences of tokens, a        *)
(* datetime is [ts, aware] with ts in minutes since 2024-01-01 00:00.      *)
(***************************************************************************)
MaxTypes == 2             \* data_types holds at most this many entries

\* class DataType(Enum), by value
DataType == {"Property", "Media", "Member", "Office"}

incremental_field == "ModificationTimestamp"
page_size == 1000

DEFAULT_SELECT_FIELDS ==
    [dt \in DataType |->
        CASE dt = "Property" ->
               <<"ListingKey", "ListPrice", "PropertyType", "BedroomsTotal",
                 "BathroomsTotalInteger", "LivingArea", "LotSizeAcres", "YearBuilt",
                 "StandardStatus", "ModificationTimestamp", "StreetNumber",
                 "StreetName", "City", "StateOrProvince", "PostalCode">>
          [] dt = "Media" ->
               <<"MediaKey", "ResourceRecordKey", "MediaURL", "MediaType",
                 "Order", "ModificationTimestamp">>
          [] dt = "Member" ->
               <<"MemberKey", "MemberFirstName", "MemberLastName", "MemberEmail",
                 "ModificationTimestamp">>
          [] OTHER ->
               <<"OfficeKey", "OfficeName", "OfficePhone", "OfficeEmail",
                 "ModificationTimestamp">>]

priority_map == [dt \in DataType |->
                    CASE dt = "Property" -> 0 [] dt = "Media" -> 1
                      [] dt = "Member" -> 2 [] OTHER -> 3]

\* dict.get(k): None when the key is absent
get(d, k) == IF k \in DOMAIN d THEN Some(d[k]) ELSE Nothing

\* the calendar fields of a datetime: ts counts the minutes since 2024-01-01 00:00
is_leap(year) == year % 4 = 0 /\ (year % 100 # 0 \/ year % 400 = 0)

days_in_year(year) == IF is_leap(year) THEN 366 ELSE 365

days_in_month(year, month) ==
    IF month = 2 THEN (IF is_leap(year) THEN 29 ELSE 28)
    ELSE IF month \in {4, 6, 9, 11} THEN 30 ELSE 31

RECURSIVE year_of(_, _)
year_of(year, days) ==
    IF days < days_in_year(year) THEN [year |-> year, days |-> days]
    ELSE year_of(year + 1, days - days_in_year(year))

RECURSIVE month_of(_, _, _)
month_of(year, month, days) ==
    IF days < days_in_month(year, month) THEN [month |-> month, day |-> days + 1]
    ELSE month_of(year, month + 1, days - days_in_month(year, month))

\* %Y, and %m %d %H %M %S: zero-padded decimal, one character per element
pad4(n) == <<ToString(n \div 1000), ToString((n \div 100) % 10),
             ToString((n \div 10) % 10), ToString(n % 10)>>

pad2(n) == <<ToString(n \div 10), ToString(n % 10)>>

\* last_sync_timestamp.strftime("%Y-%m-%dT%H:%M:%SZ"): the offset is dropped and
\* Z is a literal of the format; the text is a sequence of characters
strftime(dt) ==
    pad4(year_of(2024, dt.ts \div 1440).year) \o <<"-">>
    \o pad2(month_of(year_of(2024, dt.ts \div 1440).year, 1,
                     year_of(2024, dt.ts \div 1440).days).month) \o <<"-">>
    \o pad2(month_of(year_of(2024, dt.ts \div 1440).year, 1,
                     year_of(2024, dt.ts \div 1440).days).day) \o <<"T">>
    \o pad2((dt.ts % 1440) \div 60) \o <<":">>
    \o pad2(dt.ts % 60) \o <<":">>
    \o pad2(0) \o <<"Z">>

\* " and ".join(filters)
RECURSIVE join_and(_)
join_and(filters) ==
    IF filters = <<>> THEN <<>>
    ELSE IF Len(filters) = 1 THEN filters[1]
    ELSE filters[1] \o <<" and ">> \o join_and(Tail(filters))

\* f"{self.incremental_field} gt {timestamp_str}"
timestamp_filter(last_sync_timestamp) ==
    <<incremental_field, " gt ">> \o strftime(last_sync_timestamp)

\* a variant that lets the timestamp constraint replace the additional filter
build_incremental_filter_timestamp_only(last_sync_timestamp, additional_filter) ==
    IF last_sync_timestamp # Nothing THEN timestamp_filter(last_sync_timestamp[1])
    ELSE IF additional_filter # Nothing THEN additional_filter[1]
    ELSE <<>>

build_incremental_filter(last_sync_timestamp, additional_filter) ==
    join_and((IF last_sync_timestamp # Nothing
              THEN <<timestamp_filter(last_sync_timestamp[1])>>
              ELSE <<>>)
             \o (IF additional_filter # Nothing /\ additional_filter[1] # <<>>
                 THEN <<additional_filter[1]>>
                 ELSE <<>>))

\* custom_filters or {}
or_empty(custom_filters) ==
    IF custom_filters = Nothing THEN EmptyDict ELSE custom_filters[1]

\* the BatchRequest built for entry k of data_types; entry is the identity of
\* the object, which tells apart two descriptors of the same data type
BatchRequest(data_types, k, last_sync_timestamp, custom_filters) ==
    [entry |-> k,
     data_type |-> data_types[k],
     filter_expr |-> build_incremental_filter(last_sync_timestamp,
                                              get(custom_filters, data_types[k])),
     select_fields |-> get(DEFAULT_SELECT_FIELDS, data_types[k]),
     priority |-> IF data_types[k] \in DOMAIN priority_map
                  THEN priority_map[data_types[k]] ELSE 99]

\* one step of list.sort(key=priority): r goes behind every element that does
\* not rank after it
RECURSIVE insert_by_priority(_, _)
insert_by_priority(sorted, r) ==
    IF sorted = <<>> THEN <<r>>
    ELSE IF Head(sorted).priority <= r.priority
    THEN <<Head(sorted)>> \o insert_by_priority(Tail(sorted), r)
    ELSE <<r>> \o sorted

RECURSIVE sort_by_priority(_, _)
sort_by_priority(requests, n) ==
    IF n = 0 THEN <<>>
    ELSE insert_by_priority(sort_by_priority(requests, n - 1), requests[n])

create_batch_requests_unsorted(data_types, last_sync_timestamp, custom_filters) ==
    [k \in 1..Len(data_types) |->
        BatchRequest(data_types, k, last_sync_timestamp, or_empty(custom_filters))]

create_batch_requests(data_types, last_sync_timestamp, custom_filters) ==
    sort_by_priority(
        [k \in 1..Len(data_types) |->
            BatchRequest(data_types, k, last_sync_timestamp, or_empty(custom_filters))],
        Len(data_types))

\* the arguments callers pass
RECURSIVE ListsOf(_, _)
ListsOf(S, n) ==
    IF n = 0 THEN {<<>>}
    ELSE ListsOf(S, n - 1) \cup {Append(l, x) : l \in {m \in ListsOf(S, n - 1) : Len(m) = n - 1}, x \in S}

DataTypeLists == ListsOf(DataType, MaxTypes)

CustomFilters ==
    { Nothing,
      Some(EmptyDict),
      Some([dt \in {"Media"} |-> <<"MediaType eq 'image'">>]),
      Some([dt \in {"Property", "Office"} |->
               IF dt = "Property" THEN <<"StandardStatus eq 'Active'">> ELSE <<>>]) }

Watermarks == {Nothing, Some([ts |-> 20790, aware |-> FALSE])}

CreateBatchRequestsCall ==
    \E data_types \in DataTypeLists, last_sync_timestamp \in Watermarks,
       custom_filters \in CustomFilters :
        /\ batch_requests' =
               [called |-> TRUE, data_types |-> data_types,
                last_sync_timestamp |-> last_sync_timestamp,
                custom_filters |-> custom_filters,
                requests |-> create_batch_requests(data_types, last_sync_timestamp,
                                                   custom_filters)]
        /\ UNCHANGED <<api_calls_count, sync, sync_result, pcS>>
        /\ UNCHANGED <<client_vars, transformer_vars, run_vars, call_vars>>

NextRequests == CreateBatchRequestsCall

SpecRequests == InitBatch /\ [][NextRequests]_vars

(***************************************************************************)
(* Claims about create_batch_requests (SpecRequests)                       *)
(***************************************************************************)
\* the custom filter given for a data type, empty when there is none
CustomFilterOf(custom_filters, dt) ==
    IF custom_filters # Nothing /\ dt \in DOMAIN custom_filters[1]
    THEN custom_filters[1][dt] ELSE <<>>

\* the timestamp constraint and the custom filter, joined when both are there
WatermarkText(dt) ==
    CASE dt.ts = 20790 ->
        <<"2", "0", "2", "4", "-", "0", "1", "-", "1", "5", "T",
          "1", "0", ":", "3", "0", ":", "0", "0", "Z">>

MergedFilter(last_sync_timestamp, custom) ==
    IF last_sync_timestamp = Nothing THEN custom
    ELSE IF custom = <<>>
    THEN <<"ModificationTimestamp", " gt ">> \o WatermarkText(last_sync_timestamp[1])
    ELSE <<"ModificationTimestamp", " gt ">> \o WatermarkText(last_sync_timestamp[1])
         \o <<" and ">> \o custom

FixedPriority(dt) ==
    CASE dt = "Property" -> 0 [] dt = "Media" -> 1 [] dt = "Member" -> 2
      [] dt = "Office" -> 3

\* requests holds one descriptor per entry of data_types, each with the merged
\* filter and the default select list of its type, in ascending priority, equal
\* priorities in input order
SortedDescriptors(data_types, last_sync_timestamp, custom_filters, requests) ==
    /\ Len(requests) = Len(data_types)
    /\ {requests[i].entry : i \in 1..Len(requests)} = 1..Len(data_types)
    /\ \A i \in 1..Len(requests) :
        /\ requests[i].data_type = data_types[requests[i].entry]
        /\ requests[i].filter_expr =
               MergedFilter(last_sync_timestamp,
                            CustomFilterOf(custom_filters, requests[i].data_type))
        /\ requests[i].select_fields = Some(DEFAULT_SELECT_FIELDS[requests[i].data_type])
        /\ requests[i].priority = FixedPriority(requests[i].data_type)
    /\ \A i, j \in 1..Len(requests) :
        i < j => \/ requests[i].priority < requests[j].priority
                 \/ /\ requests[i].priority = requests[j].priority
                    /\ requests[i].entry < requests[j].entry

\* C20: create_batch_requests returns exactly one descriptor per entry of
\* data_types, each carrying the incremental filter merged with that type's
\* custom filter and the type's default select list, sorted ascending by the
\* fixed priority (Property 0, Media 1, Member 2, Office 3), equal priorities
\* kept in input order.
C20_OneSortedDescriptorPerEntry ==
    batch_requests.called =>
        SortedDescriptors(batch_requests.data_types, batch_requests.last_sync_timestamp,
                          batch_requests.custom_filters, batch_requests.requests)

C20_Witness ==
    /\ batch_requests.called
    /\ batch_requests.data_types = <<"Office", "Property">>
    /\ batch_requests.last_sync_timestamp # Nothing
    /\ Len(batch_requests.requests) = 2
    /\ batch_requests.requests[1].data_type = "Property"
    /\ batch_requests.requests[1].filter_expr =
           <<"ModificationTimestamp", " gt ">>
           \o WatermarkText([ts |-> 20790, aware |-> FALSE])
           \o <<" and ", "StandardStatus eq 'Active'">>
    /\ batch_requests.requests[2].filter_expr =
           <<"ModificationTimestamp", " gt ">>
           \o WatermarkText([ts |-> 20790, aware |-> FALSE])

(***************************************************************************)
(* Direct calls of build_incremental_filter (SpecFilter).  The function    *)
(* reads only its arguments and the configured field name, so a behaviour  *)
(* is one call.                                                            *)
(***************************************************************************)
WatermarkTimes ==
    {d * 1440 + h * 60 + m : d \in {0, 14, 59, 60, 365, 366, 425},
                             h \in {0, 9, 23}, m \in {0, 5, 59}}

FilterWatermarks ==
    {Nothing} \cup {Some([ts |-> t, aware |-> a]) : t \in WatermarkTimes, a \in BOOLEAN}

AdditionalFilters ==
    { Nothing,
      Some(<<>>),
      Some(<<"StandardStatus eq 'Active'">>),
      Some(<<"City eq 'Reno'", " and ", "ListPrice gt 100000">>) }

BuildIncrementalFilterCall ==
    \E last_sync_timestamp \in FilterWatermarks, additional_filter \in AdditionalFilters :
        /\ calls = <<>>
        /\ calls' = <<[op |-> "build_incremental_filter",
                       args |-> <<last_sync_timestamp, additional_filter>>,
                       out |-> build_incremental_filter(last_sync_timestamp,
                                                        additional_filter)]>>
        /\ UNCHANGED <<client_vars, transformer_vars, sync_vars, run_vars>>

NextFilter == BuildIncrementalFilterCall

SpecFilter == InitBatch /\ [][NextFilter]_vars

\* the value of a decimal digit character
DigitOf ==
    ("0" :> 0) @@ ("1" :> 1) @@ ("2" :> 2) @@ ("3" :> 3) @@ ("4" :> 4) @@
    ("5" :> 5) @@ ("6" :> 6) @@ ("7" :> 7) @@ ("8" :> 8) @@ ("9" :> 9)

TwoDigits(t, i) == 10 * DigitOf[t[i]] + DigitOf[t[i + 1]]

FourDigits(t, i) == 100 * TwoDigits(t, i) + TwoDigits(t, i + 2)

LeapYear(y) == y % 4 = 0 /\ (y % 100 # 0 \/ y % 400 = 0)

\* days from 2024-01-01 to the given date, for the years 2024..2099
DaysSince2024(y, m, d) ==
    (y - 2024) * 365 + ((y - 1) \div 4 - 505)
    + <<0, 31, 59, 90, 120, 151, 181, 212, 243, 273, 304, 334>>[m]
    + (IF m > 2 /\ LeapYear(y) THEN 1 ELSE 0)
    + (d - 1)

\* t reads YYYY-MM-DDTHH:MM:SSZ and names the instant dt
IsIsoUtc(t, dt) ==
    /\ Len(t) = 20
    /\ t[5] = "-" /\ t[8] = "-" /\ t[11] = "T"
    /\ t[14] = ":" /\ t[17] = ":" /\ t[20] = "Z"
    /\ \A i \in (1..19) \ {5, 8, 11, 14, 17} : t[i] \in DOMAIN DigitOf
    /\ FourDigits(t, 1) \in 2024..2099
    /\ TwoDigits(t, 6) \in 1..12
    /\ TwoDigits(t, 9) \in 1..31
    /\ TwoDigits(t, 12) \in 0..23
    /\ TwoDigits(t, 15) \in 0..59
    /\ TwoDigits(t, 18) = 0
    /\ DaysSince2024(FourDigits(t, 1), TwoDigits(t, 6), TwoDigits(t, 9)) * 1440
       + TwoDigits(t, 12) * 60 + TwoDigits(t, 15) = dt.ts

\* text reads <field> gt <timestamp>
IsTimestampClause(text, dt) ==
    /\ Len(text) = 22
    /\ text[1] = "ModificationTimestamp"
    /\ text[2] = " gt "
    /\ IsIsoUtc(SubSeq(text, 3, 22), dt)

FilterAbsent(additional_filter) ==
    additional_filter = Nothing \/ additional_filter[1] = <<>>

FilterContract(last_sync_timestamp, additional_filter, out) ==
    IF last_sync_timestamp = Nothing
    THEN (IF FilterAbsent(additional_filter) THEN out = <<>>
          ELSE out = additional_filter[1])
    ELSE IF FilterAbsent(additional_filter)
    THEN IsTimestampClause(out, last_sync_timestamp[1])
    ELSE /\ Len(out) > 23
         /\ IsTimestampClause(SubSeq(out, 1, 22), last_sync_timestamp[1])
         /\ out[23] = " and "
         /\ SubSeq(out, 24, Len(out)) = additional_filter[1]

\* C21: build_incremental_filter returns the empty string when watermark and
\* additional filter are both absent, the additional filter verbatim when only
\* it is present, '<field> gt YYYY-MM-DDTHH:MM:SSZ' when only the watermark is
\* present, and the timestamp clause joined to the additional filter by
\* ' and ' when both are present.
C21_FilterHasFourCases ==
    \A i \in 1..Len(calls) :
        calls[i].op = "build_incremental_filter" =>
            FilterContract(calls[i].args[1], calls[i].args[2], calls[i].out)

C21_Witness ==
    /\ Len(calls) = 1
    /\ calls[1].op = "build_incremental_filter"
    /\ calls[1].args = <<Some([ts |-> 85505, aware |-> TRUE]),
                         Some(<<"StandardStatus eq 'Active'">>)>>
    /\ calls[1].out =
           <<"ModificationTimestamp", " gt ",
             "2", "0", "2", "4", "-", "0", "2", "-", "2", "9", "T",
             "0", "9", ":", "0", "5", ":", "0", "0", "Z",
             " and ", "StandardStatus eq 'Active'">>

(***************************************************************************)
(* calculate_optimal_batch_size (SpecBatchSize): a function of its three   *)
(* arguments, so a behaviour is one call.                                  *)
(***************************************************************************)
MaxEstimated == 12        \* estimated_records ranges over 0..MaxEstimated
MaxQuota == 4             \* quota_remaining ranges over -1..MaxQuota
MaxBatchSizeArg == 4      \* max_batch_size ranges over 1..MaxBatchSizeArg

min(a, b) == IF a <= b THEN a ELSE b

\* a variant that returns the computed size without the cap
calculate_optimal_batch_size_uncapped(estimated_records, quota_remaining, max_batch_size) ==
    IF quota_remaining <= 0 THEN 0
    ELSE IF (estimated_records + max_batch_size - 1) \div max_batch_size <= quota_remaining
    THEN max_batch_size
    ELSE (estimated_records + quota_remaining - 1) \div quota_remaining

calculate_optimal_batch_size(estimated_records, quota_remaining, max_batch_size) ==
    IF quota_remaining <= 0 THEN 0
    ELSE IF (estimated_records + max_batch_size - 1) \div max_batch_size <= quota_remaining
    THEN max_batch_size
    ELSE min((estimated_records + quota_remaining - 1) \div quota_remaining,
             max_batch_size)

CalculateOptimalBatchSizeCall ==
    \E estimated_records \in 0..MaxEstimated, quota_remaining \in (-1)..MaxQuota,
       max_batch_size \in 1..MaxBatchSizeArg :
        /\ calls = <<>>
        /\ calls' = <<[op |-> "calculate_optimal_batch_size",
                       args |-> <<estimated_records, quota_remaining, max_batch_size>>,
                       out |-> calculate_optimal_batch_size(estimated_records,
                                                            quota_remaining,
                                                            max_batch_size)]>>
        /\ UNCHANGED <<client_vars, transformer_vars, sync_vars, run_vars>>

NextBatchSize == CalculateOptimalBatchSizeCall

SpecBatchSize == InitBatch /\ [][NextBatchSize]_vars

\* C22: calculate_optimal_batch_size returns 0 when quota_remaining <= 0 and
\* otherwise a value s with 0 < s <= max_batch_size, for all non-negative
\* estimated_records and positive max_batch_size.
C22_BatchSizeInRange ==
    \A i \in 1..Len(calls) :
        calls[i].op = "calculate_optimal_batch_size" =>
            IF calls[i].args[2] <= 0 THEN calls[i].out = 0
            ELSE 0 < calls[i].out /\ calls[i].out <= calls[i].args[3]

\* a call that takes the last branch: more pages are needed than quota is left
C22_Witness ==
    /\ Len(calls) = 1
    /\ calls[1].op = "calculate_optimal_batch_size"
    /\ calls[1].args = <<7, 2, 3>>
    /\ calls[1].out = 3

\* the number of pages of size s that n records take
Ceil(n, s) == CHOOSE k \in 0..n : k * s >= n /\ (k = 0 \/ (k - 1) * s < n)

\* C23: when quota_remaining > 0 and ceil(estimated_records / max_batch_size) >
\* quota_remaining, the result is min(ceil(estimated_records / quota_remaining),
\* max_batch_size), and this size s is the smallest page size that fits the
\* fetch in the remaining budget: ceil(estimated_records / s) <= quota_remaining.
C23_SmallestSizeThatFits ==
    \A i \in 1..Len(calls) :
        (/\ calls[i].op = "calculate_optimal_batch_size"
         /\ calls[i].args[2] > 0
         /\ Ceil(calls[i].args[1], calls[i].args[3]) > calls[i].args[2]) =>
            /\ calls[i].out = min(Ceil(calls[i].args[1], calls[i].args[2]),
                                  calls[i].args[3])
            /\ Ceil(calls[i].args[1], calls[i].out) <= calls[i].args[2]
            /\ \A s \in 1..(calls[i].out - 1) :
                    Ceil(calls[i].args[1], s) > calls[i].args[2]

(***************************************************************************)
(* is_quota_approaching_limit (SpecQuota).  The snapshot is what           *)
(* get_quota_info made of the headers of the last successful response; the *)
(* threshold is the fraction num/den.                                      *)
(***************************************************************************)
Windows == <<"minute", "hour", "daily">>

LimitKey(w) ==
    CASE w = "minute" -> "minute_quota_limit" [] w = "hour" -> "hour_quota_limit"
      [] w = "daily" -> "daily_quota_limit"

RemainingKey(w) ==
    CASE w = "minute" -> "minute_quota_remaining" [] w = "hour" -> "hour_quota_remaining"
      [] w = "daily" -> "daily_quota_remaining"

AlertKey(w) ==
    CASE w = "minute" -> "minute_quota_low" [] w = "hour" -> "hour_quota_low"
      [] w = "daily" -> "daily_quota_low"

\* the truth value of a snapshot entry: None and 0 are false, a retained text is
\* never empty
truthy(v) == v # Nothing /\ ("int" \in DOMAIN v[1] => v[1].int # 0)

\* if limit and remaining is not None
window_checked(quota, w) ==
    truthy(get(quota, LimitKey(w))) /\ get(quota, RemainingKey(w)) # Nothing

\* remaining / limit raises TypeError unless both are numbers
window_raises(quota, w) ==
    /\ window_checked(quota, w)
    /\ ("raw" \in DOMAIN quota[LimitKey(w)] \/ "raw" \in DOMAIN quota[RemainingKey(w)])

\* remaining / limit <= threshold_percent
ratio_le(remaining, limit, t) ==
    IF limit > 0 THEN remaining * t.den <= t.num * limit
    ELSE remaining * t.den >= t.num * limit

\* remaining / limit < threshold_percent
ratio_lt(remaining, limit, t) ==
    IF limit > 0 THEN remaining * t.den < t.num * limit
    ELSE remaining * t.den > t.num * limit

checked_windows(quota) ==
    {Windows[i] : i \in {j \in DOMAIN Windows : window_checked(quota, Windows[j])}}

WindowOf(k) == CHOOSE w \in {"minute", "hour", "daily"} : AlertKey(w) = k

\* a variant that alerts only below the threshold
is_quota_approaching_limit_strict(quota, threshold_percent) ==
    IF \E w \in checked_windows(quota) : window_raises(quota, w)
    THEN [kind |-> "TypeError", alerts |-> EmptyDict]
    ELSE [kind |-> "ok",
          alerts |-> [k \in {AlertKey(w) : w \in checked_windows(quota)} |->
                         ratio_lt(quota[RemainingKey(WindowOf(k))].int,
                                  quota[LimitKey(WindowOf(k))].int,
                                  threshold_percent)]]

is_quota_approaching_limit(quota, threshold_percent) ==
    IF \E w \in checked_windows(quota) : window_raises(quota, w)
    THEN [kind |-> "TypeError", alerts |-> EmptyDict]
    ELSE [kind |-> "ok",
          alerts |-> [k \in {AlertKey(w) : w \in checked_windows(quota)} |->
                         ratio_le(quota[RemainingKey(WindowOf(k))].int,
                                  quota[LimitKey(WindowOf(k))].int,
                                  threshold_percent)]]

\* response headers: the minute window in every combination of absent, number,
\* zero and text; the hour and daily windows in a few
MinuteHeaders ==
    {[h \in {} |-> ""]}
    \cup {("Minute-Quota-Limit" :> l) : l \in {"1000", "0", "n/a"}}
    \cup {("Minute-Quota-Remaining" :> r) : r \in {"90", "5", "1000", "n/a"}}
    \cup {("Minute-Quota-Limit" :> l) @@ ("Minute-Quota-Remaining" :> r) :
             l \in {"1000", "0", "n/a"}, r \in {"90", "5", "1000", "n/a"}}

HourHeaders ==
    { [h \in {} |-> ""],
      ("Hour-Quota-Limit" :> "1000") @@ ("Hour-Quota-Remaining" :> "90"),
      ("Hour-Quota-Limit" :> "n/a") @@ ("Hour-Quota-Remaining" :> "5"),
      ("Hour-Quota-Limit" :> "0") @@ ("Hour-Quota-Remaining" :> "0") }

DailyHeaders ==
    { [h \in {} |-> ""],
      ("Daily-Quota-Limit" :> "90") @@ ("Daily-Quota-Remaining" :> "5") }

QuotaResponseHeaders ==
    {m @@ h @@ d : m \in MinuteHeaders, h \in HourHeaders, d \in DailyHeaders}

Thresholds == {[num |-> 1, den |-> 10], [num |-> 9, den |-> 100], [num |-> 0, den |-> 1]}

\* a request ends in a 200 response with the given headers: the snapshot is
\* replaced and stamped
QuotaResponse ==
    \E response_headers \in QuotaResponseHeaders :
        /\ pc = "idle"
        /\ calls = <<>>
        /\ quota_info' = quota_after(quota_info, [_response_headers |-> response_headers])
        /\ last_quota_check' = Some(now)
        /\ UNCHANGED <<now, token_cache, max_retries, pc, req, page, result, obs, auths>>
        /\ UNCHANGED <<transformer_vars, sync_vars, run_vars, call_vars>>

IsQuotaApproachingLimitCall ==
    \E threshold_percent \in Thresholds :
        /\ pc = "idle"
        /\ calls = <<>>
        /\ calls' = <<[op |-> "is_quota_approaching_limit",
                       args |-> <<threshold_percent>>,
                       quota |-> quota_info,
                       out |-> is_quota_approaching_limit(quota_info, threshold_percent)]>>
        /\ UNCHANGED <<client_vars, transformer_vars, sync_vars, run_vars>>

NextQuota == QuotaResponse \/ IsQuotaApproachingLimitCall

SpecQuota == InitBatch /\ [][NextQuota]_vars

\* the number a snapshot holds under a key, if it holds one
KnownNumber(quota, k) == k \in DOMAIN quota /\ "int" \in DOMAIN quota[k]

QuotaCheckReturned(i) ==
    calls[i].op = "is_quota_approaching_limit" /\ calls[i].out.kind = "ok"

\* the value the key of window w must have
AlertValue(c, w) ==
    /\ AlertKey(w) \in DOMAIN c.out.alerts
    /\ c.out.alerts[AlertKey(w)] =
           (c.quota[RemainingKey(w)].int * c.args[1].den
            <= c.args[1].num * c.quota[LimitKey(w)].int)

C39_QuotaCheckNeverRaises ==
    \A i \in 1..Len(calls) :
        calls[i].op = "is_quota_approaching_limit" => calls[i].out.kind = "ok"

\* the snapshot holds no raw string under the keys the check reads
AllNumbers(quota) ==
    \A w \in {"minute", "hour", "daily"} : \A k \in {LimitKey(w), RemainingKey(w)} :
        k \in DOMAIN quota => "int" \in DOMAIN quota[k]

\* on snapshots that hold numbers only the check returns
C39_ReturnsOnNumbers ==
    \A i \in 1..Len(calls) :
        (calls[i].op = "is_quota_approaching_limit" /\ AllNumbers(calls[i].quota))
            => calls[i].out.kind = "ok"

Fetched(records) == [kind |-> "ok", msg |-> <<>>, records |-> records]
FetchRaised(exc, msg) == [kind |-> exc, msg |-> msg, records |-> <<>>]

\* a fetched record, by the value it holds under incremental_field
SyncRecord(mod_ts) == [mod_ts |-> mod_ts]

\* what execute_paginated_query can do
FetchOutcomes ==
    { Fetched(<<>>),
      Fetched(<<SyncRecord(VStr("bad-date")), SyncRecord(VStr("2024-01-15T10:30:00Z")),
                SyncRecord(VNone)>>),
      Fetched(<<SyncRecord(VStr("2024-01-15T10:30:00Z")),
                SyncRecord(VStr("2024-02-01 08:00:00"))>>),
      FetchRaised("ODataError", <<"API request failed:", "500">>),
      FetchRaised("RateLimitError", <<"Rate limit exceeded after", "3", "retries:">>) }

\* mod_ts.replace('Z', '+00:00')
replace_Z(s) ==
    CASE s = "2024-01-15T10:30:00Z" -> "2024-01-15T10:30:00+00:00"
      [] s = "2024-01-10T00:00:00Z" -> "2024-01-10T00:00:00+00:00"
      [] OTHER -> s

\* datetime.fromisoformat(s): Nothing for ValueError
fromisoformat(s) ==
    CASE s = "2024-01-15T10:30:00+00:00" -> Some([ts |-> 20790, aware |-> TRUE])
      [] s = "2024-01-10T00:00:00+00:00" -> Some([ts |-> 12960, aware |-> TRUE])
      [] s = "2024-02-01 08:00:00" -> Some([ts |-> 45120, aware |-> FALSE])
      [] OTHER -> Nothing

\* the loop over the records: [kind, last], kind being TypeError when an
\* offset-aware datetime is compared with an offset-naive one
RECURSIVE track_latest(_, _)
track_parsed(parsed, rest, last) ==
    IF parsed = Nothing THEN track_latest(rest, last)
    ELSE IF last = Nothing THEN track_latest(rest, parsed)
    ELSE IF parsed[1].aware # last[1].aware THEN [kind |-> "TypeError", last |-> last]
    ELSE IF parsed[1].ts > last[1].ts THEN track_latest(rest, parsed)
    ELSE track_latest(rest, last)

track_latest(records, last) ==
    IF records = <<>> THEN [kind |-> "ok", last |-> last]
    ELSE IF Head(records).mod_ts = VNone \/ Head(records).mod_ts = VStr("")
    THEN track_latest(Tail(records), last)
    ELSE track_parsed(fromisoformat(replace_Z(Head(records).mod_ts.s)),
                      Tail(records), last)

IncrementalSyncResult(data_type) ==
    [data_type |-> data_type, records_fetched |-> 0, records_processed |-> 0,
     api_calls_made |-> 0, last_modification_timestamp |-> Nothing,
     errors |-> <<>>, success |-> TRUE]

\* the arguments of the paginated query
paginated_query(data_type, last_sync_timestamp, additional_filter, select_fields) ==
    [entity_set |-> data_type,
     filter_expr |-> IF build_incremental_filter(last_sync_timestamp,
                                                 additional_filter) = <<>>
                     THEN Nothing
                     ELSE Some(build_incremental_filter(last_sync_timestamp,
                                                        additional_filter)),
     select_fields |-> IF select_fields = Nothing
                       THEN get(DEFAULT_SELECT_FIELDS, data_type) ELSE select_fields,
     top |-> page_size]

\* the except clause: str(e) goes to the errors of the result
sync_failed(res, msg, count) ==
    [kind |-> "ok", count |-> count,
     result |-> [res EXCEPT !.success = FALSE, !.errors = Append(@, msg)]]

\* after the fetch returned: count is the counter after its increment, tracked
\* the outcome of the loop over the records
sync_fetched(data_type, records, tracked, count) ==
    IF tracked.kind # "ok"
    THEN sync_failed([IncrementalSyncResult(data_type) EXCEPT
                          !.records_fetched = Len(records),
                          !.last_modification_timestamp = tracked.last],
                     <<"can't compare offset-naive and offset-aware datetimes">>,
                     count)
    ELSE [kind |-> "ok", count |-> count,
          result |-> [IncrementalSyncResult(data_type) EXCEPT
                          !.records_fetched = Len(records),
                          !.last_modification_timestamp = tracked.last,
                          !.api_calls_made = count,
                          !.records_processed = Len(records)]]

execute_incremental_sync_unguarded(data_type, outcome, count) ==
    IF outcome.kind # "ok"
    THEN [kind |-> outcome.kind, count |-> count,
          result |-> IncrementalSyncResult(data_type)]
    ELSE sync_fetched(data_type, outcome.records,
                      track_latest(outcome.records, Nothing), count + 1)

\* execute_incremental_sync, outcome being what the paginated query did and
\* count the value of _api_calls_count: [kind, result, count]
execute_incremental_sync(data_type, outcome, count) ==
    IF outcome.kind # "ok"
    THEN sync_failed(IncrementalSyncResult(data_type), outcome.msg, count)
    ELSE sync_fetched(data_type, outcome.records,
                      track_latest(outcome.records, Nothing), count + 1)

\* what mysql_loader.get_last_sync_timestamp can do
WatermarkReads ==
    { [kind |-> "ok", v |-> w] : w \in Watermarks }
    \cup {[kind |-> "DatabaseError", v |-> Nothing]}

get_last_sync_timestamp_stale(read) ==
    IF read.kind = "ok" THEN read.v ELSE Some([ts |-> 20790, aware |-> FALSE])

\* try: return self.mysql_loader.get_last_sync_timestamp()
\* except Exception: return None
get_last_sync_timestamp(read) == IF read.kind = "ok" THEN read.v ELSE Nothing

\* (reads, raised: how often the watermark was read, and whether the read raised)
SyncFrame(data_types, last_sync_timestamp, custom_filters, reads, raised) ==
    [data_types |-> data_types,
     requests |-> create_batch_requests(data_types, last_sync_timestamp, custom_filters),
     last_sync_timestamp |-> last_sync_timestamp,
     custom_filters |-> custom_filters,
     i |-> 0, results |-> EmptyDict, total_records_processed |-> 0,
     steps |-> <<>>, watermark_reads |-> reads, read_raised |-> raised]

\* execute_batched_sync up to its loop; the orchestrator builds a manager for
\* each run and calls it once
execute_batched_sync(data_types, use_incremental, custom_filters, read) ==
    /\ pcS = "idle"
    /\ sync = NoSync
    /\ sync' = IF use_incremental
               THEN SyncFrame(data_types, get_last_sync_timestamp(read), custom_filters,
                              1, read.kind # "ok")
               ELSE SyncFrame(data_types, Nothing, custom_filters, 0, FALSE)
    /\ api_calls_count' = 0
    /\ sync_result' = NoSyncResult
    /\ pcS' = "sync"
    /\ UNCHANGED batch_requests
    /\ UNCHANGED <<client_vars, transformer_vars, run_vars, call_vars>>

\* the filter the loop passes on: custom_filters.get(type) if custom_filters
additional_filter_of(custom_filters, data_type) ==
    IF custom_filters # Nothing /\ custom_filters[1] # EmptyDict
    THEN get(custom_filters[1], data_type) ELSE Nothing

SyncRaised(exc) ==
    [type |-> "raised", exc |-> exc, results |-> EmptyDict, total_api_calls |-> 0,
     total_records_processed |-> 0]

sync_loop_body_stops(request, outcome, r) ==
    /\ api_calls_count' = r.count
    /\ sync' = [sync EXCEPT
                   !.i = IF r.result.success THEN @ + 1 ELSE Len(sync.requests),
                   !.results = Put(@, request.data_type, r.result),
                   !.total_records_processed = @ + r.result.records_processed,
                   !.steps = Append(@,
                       [query |-> paginated_query(request.data_type,
                                      sync.last_sync_timestamp,
                                      additional_filter_of(sync.custom_filters,
                                                           request.data_type),
                                      request.select_fields),
                        raised |-> outcome.kind # "ok",
                        msg |-> outcome.msg,
                        result |-> r.result])]
    /\ UNCHANGED <<sync_result, pcS>>

\* one round of the loop: r is what execute_incremental_sync did for request
sync_loop_body(request, outcome, r) ==
    IF r.kind # "ok"
    THEN /\ sync_result' = SyncRaised(r.kind)
         /\ pcS' = "idle"
         /\ UNCHANGED <<api_calls_count, sync>>
    ELSE /\ api_calls_count' = r.count
         /\ sync' = [sync EXCEPT
                        !.i = @ + 1,
                        !.results = Put(@, request.data_type, r.result),
                        !.total_records_processed = @ + r.result.records_processed,
                        !.steps = Append(@,
                            [query |-> paginated_query(request.data_type,
                                           sync.last_sync_timestamp,
                                           additional_filter_of(sync.custom_filters,
                                                                request.data_type),
                                           request.select_fields),
                             raised |-> outcome.kind # "ok",
                             msg |-> outcome.msg,
                             result |-> r.result])]
         /\ UNCHANGED <<sync_result, pcS>>

SyncStep ==
    /\ pcS = "sync"
    /\ sync.i < Len(sync.requests)
    /\ \E outcome \in FetchOutcomes :
        sync_loop_body(sync.requests[sync.i + 1], outcome,
                       execute_incremental_sync(sync.requests[sync.i + 1].data_type,
                                                outcome, api_calls_count))
    /\ UNCHANGED batch_requests
    /\ UNCHANGED <<client_vars, transformer_vars, run_vars, call_vars>>

any_successful(results) == \E dt \in DOMAIN results : results[dt].success

\* BatchSyncResult.all_successful
all_successful(results) == \A dt \in DOMAIN results : results[dt].success

SyncReturn ==
    /\ pcS = "sync"
    /\ sync.i = Len(sync.requests)
    /\ sync_result' = [type |-> "BatchSyncResult", exc |-> "",
                       results |-> sync.results,
                       total_api_calls |-> api_calls_count,
                       total_records_processed |-> sync.total_records_processed]
    /\ pcS' = "idle"
    /\ UNCHANGED <<api_calls_count, sync, batch_requests>>
    /\ UNCHANGED <<client_vars, transformer_vars, run_vars, call_vars>>

BatchedSyncCall ==
    \E data_types \in DataTypeLists, use_incremental \in BOOLEAN,
       custom_filters \in CustomFilters, read \in WatermarkReads :
        execute_batched_sync(data_types, use_incremental, custom_filters, read)

NextSync == BatchedSyncCall \/ SyncStep \/ SyncReturn

SpecSync == InitBatch /\ [][NextSync]_vars

(***************************************************************************)
(* Direct calls of execute_incremental_sync (SpecIncremental): one call on *)
(* a manager, the paginated query returning any list of up to MaxFetched   *)
(* records or raising.                                                     *)
(***************************************************************************)
MaxFetched == 3           \* records the paginated query returns

\* what a record holds under ModificationTimestamp: nothing, an empty string, a
\* text that is no date, two instants with the suffix Z, one without an offset
ModificationTimestamps ==
    {VNone, VStr(""), VStr("bad-date"), VStr("2024-01-15T10:30:00Z"),
     VStr("2024-01-10T00:00:00Z"), VStr("2024-02-01 08:00:00")}

RECURSIVE RecordLists(_)
RecordLists(n) ==
    IF n = 0 THEN {<<>>}
    ELSE RecordLists(n - 1)
         \cup {Append(l, SyncRecord(v)) :
                 l \in {m \in RecordLists(n - 1) : Len(m) = n - 1},
                 v \in ModificationTimestamps}

IncrementalFetches ==
    {Fetched(l) : l \in RecordLists(MaxFetched)}
    \cup {FetchRaised("ODataError", <<"API request failed:", "500">>)}

IncrementalSyncCall ==
    \E data_type \in {"Property", "Media"}, outcome \in IncrementalFetches :
        /\ pcS = "idle"
        /\ sync = NoSync
        /\ calls = <<>>
        /\ api_calls_count' =
               execute_incremental_sync(data_type, outcome, api_calls_count).count
        /\ calls' = <<[op |-> "execute_incremental_sync",
                       args |-> <<data_type>>,
                       fetch |-> outcome,
                       out |-> execute_incremental_sync(data_type, outcome,
                                                        api_calls_count).result]>>
        /\ UNCHANGED <<sync, sync_result, pcS, batch_requests>>
        /\ UNCHANGED <<client_vars, transformer_vars, run_vars>>

NextIncremental == IncrementalSyncCall

SpecIncremental == InitBatch /\ [][NextIncremental]_vars

\* the instant a timestamp text names, in minutes since 2024-01-01 00:00
InstantOf ==
    ("2024-01-15T10:30:00Z" :> 20790) @@ ("2024-01-10T00:00:00Z" :> 12960)
    @@ ("2024-02-01 08:00:00" :> 45120)

\* the instants of the records whose timestamp is present and parseable
ParseableInstants(records) ==
    {InstantOf[records[i].mod_ts.s] :
        i \in {j \in DOMAIN records : /\ records[j].mod_ts # VNone
                                       /\ records[j].mod_ts.s \in DOMAIN InstantOf}}

\* C31: when the fetch succeeds, execute_incremental_sync returns success=true
\* with last_modification_timestamp equal to the maximum modification timestamp
\* over all fetched records whose timestamp is present and parseable; records
\* with an unparseable or missing timestamp are skipped and never make the sync
\* fail.
C31_FetchSuccessGivesLatestTimestamp ==
    \A i \in 1..Len(calls) :
        (calls[i].op = "execute_incremental_sync" /\ calls[i].fetch.kind = "ok") =>
            /\ calls[i].out.success
            /\ IF ParseableInstants(calls[i].fetch.records) = {}
               THEN calls[i].out.last_modification_timestamp = Nothing
               ELSE /\ calls[i].out.last_modification_timestamp # Nothing
                    /\ calls[i].out.last_modification_timestamp[1].ts
                          \in ParseableInstants(calls[i].fetch.records)
                    /\ \A t \in ParseableInstants(calls[i].fetch.records) :
                          t <= calls[i].out.last_modification_timestamp[1].ts

(***************************************************************************)
(* Claims about the batched sync (SpecSync)                                *)
(***************************************************************************)
SyncReturned == sync_result.type = "BatchSyncResult"

\* the rounds of the loop in which the paginated query raised
FailedFetches == {k \in 1..Len(sync.steps) : sync.steps[k].raised}

\* C15: execute_incremental_sync never raises: when the underlying paginated
\* fetch fails with any exception, it returns a result with success=false and
\* the failure text appended to errors.
C15_FetchFailureIsRecorded ==
    /\ sync_result.type # "raised"
    /\ \A k \in FailedFetches :
        /\ ~sync.steps[k].result.success
        /\ sync.steps[k].result.errors = <<sync.steps[k].msg>>

C15_Witness ==
    /\ Len(sync.steps) = 1
    /\ sync.steps[1].raised
    /\ sync.steps[1].result.errors = <<<<"API request failed:", "500">>>>
    /\ sync.steps[1].result.records_fetched = 0

\* how often data type dt is fetched, how often it is requested
TimesFetched(dt) ==
    Cardinality({k \in 1..Len(sync.steps) : sync.steps[k].query.entity_set = dt})
TimesRequested(dt) ==
    Cardinality({k \in 1..Len(sync.data_types) : sync.data_types[k] = dt})

\* C16: execute_batched_sync issues the per-type fetches one after the other in
\* ascending priority order (Property, Media, Member, Office), attempts every
\* requested data type even when an earlier one failed, and always returns a
\* BatchSyncResult rather than raising.
C16_EveryTypeAttemptedInOrder ==
    /\ sync_result.type \in {"none", "BatchSyncResult"}
    /\ (pcS = "idle" /\ sync # NoSync) => SyncReturned
    /\ \A k, l \in 1..Len(sync.steps) :
        k < l => FixedPriority(sync.steps[k].query.entity_set)
                     <= FixedPriority(sync.steps[l].query.entity_set)
    /\ SyncReturned =>
        /\ Len(sync.steps) = Len(sync.data_types)
        /\ \A dt \in DataType : TimesFetched(dt) = TimesRequested(dt)

C16_Witness ==
    /\ SyncReturned
    /\ sync.data_types = <<"Office", "Property">>
    /\ Len(sync.steps) = 2
    /\ sync.steps[1].query.entity_set = "Property"
    /\ sync.steps[1].raised
    /\ sync.steps[2].query.entity_set = "Office"
    /\ sync.steps[2].result.success

\* the result of the last fetch made for data type dt
LastFetchSucceeded(dt) ==
    \E k \in 1..Len(sync.steps) :
        /\ sync.steps[k].query.entity_set = dt
        /\ sync.steps[k].result.success
        /\ \A l \in (k + 1)..Len(sync.steps) : sync.steps[l].query.entity_set # dt

RequestedTypes == {sync.data_types[k] : k \in 1..Len(sync.data_types)}

\* C17: BatchSyncResult.all_successful is true exactly when every per-type
\* result has success=true, and a batched sync in which some data types
\* succeeded and some failed is told apart, in the returned result, from one in
\* which every data type failed: the former holds a successful entry.
C17_AllSuccessfulIffEveryTypeSucceeded ==
    SyncReturned =>
        /\ DOMAIN sync_result.results = RequestedTypes
        /\ \A dt \in RequestedTypes :
            sync_result.results[dt].success = LastFetchSucceeded(dt)
        /\ all_successful(sync_result.results)
               = (\A dt \in RequestedTypes : LastFetchSucceeded(dt))
        /\ (\E dt \in RequestedTypes : LastFetchSucceeded(dt))
               = (\E dt \in DOMAIN sync_result.results : sync_result.results[dt].success)

C17_Witness ==
    /\ SyncReturned
    /\ sync.data_types = <<"Property", "Media">>
    /\ ~sync_result.results["Property"].success
    /\ sync_result.results["Media"].success
    /\ ~all_successful(sync_result.results)

\* C19: after execute_batched_sync, total_api_calls is at least the number of
\* requested data types.
C19_ApiCallsCoverEveryType ==
    SyncReturned => sync_result.total_api_calls >= Len(sync.data_types)

\* the filter holds no clause on the incremental field
NoTimestampConstraint(filter_expr) ==
    \A j \in DOMAIN filter_expr : filter_expr[j] \notin {incremental_field, " gt "}

\* the errors a per-type result holds come from its own fetch and records
OwnErrors(step) ==
    IF step.raised THEN <<step.msg>>
    ELSE IF step.result.success THEN <<>>
    ELSE << <<"can't compare offset-naive and offset-aware datetimes">> >>

\* C40: if the persistence collaborator raises while the watermark is read,
\* execute_batched_sync with use_incremental=true proceeds as a full sync: the
\* watermark is read exactly once, every fetch is issued with no timestamp
\* constraint, and no error is recorded in the result.
C40_FailedWatermarkReadMeansFullSync ==
    sync.read_raised =>
        /\ sync.watermark_reads = 1
        /\ sync.last_sync_timestamp = Nothing
        /\ sync_result.type # "raised"
        /\ (pcS = "idle") => SyncReturned /\ Len(sync.steps) = Len(sync.data_types)
        /\ \A k \in DOMAIN sync.requests :
              NoTimestampConstraint(sync.requests[k].filter_expr)
        /\ \A k \in DOMAIN sync.steps :
              /\ \/ sync.steps[k].query.filter_expr = Nothing
                 \/ NoTimestampConstraint(sync.steps[k].query.filter_expr[1])
              /\ sync.steps[k].query.filter_expr
                    = paginated_query(sync.requests[k].data_type, Nothing,
                                      additional_filter_of(sync.custom_filters,
                                                           sync.requests[k].data_type),
                                      sync.requests[k].select_fields).filter_expr
              /\ sync.steps[k].result.errors = OwnErrors(sync.steps[k])

\* the read raised, both types were fetched, one with its custom filter only,
\* and the result holds no error
C40_Witness ==
    /\ sync.read_raised
    /\ SyncReturned
    /\ Len(sync.steps) = 2
    /\ sync.steps[1].query.filter_expr = Some(<<"StandardStatus eq 'Active'">>)
    /\ sync.steps[2].query.filter_expr = Nothing
    /\ \A k \in 1..2 : sync.steps[k].result.success /\ sync.steps[k].result.errors = <<>>

\* records_processed summed over the results held for the data types in S
RECURSIVE SumProcessed(_, _)
SumProcessed(results, S) ==
    IF S = {} THEN 0
    ELSE LET dt == CHOOSE x \in S : TRUE
         IN  results[dt].records_processed + SumProcessed(results, S \ {dt})

\* C38: after execute_batched_sync, total_records_processed equals the sum of
\* records_processed over the per-type results held in the returned
\* aggregate, for every input list of data types, including lists that name
\* the same data type more than once.
C38_TotalIsSumOfResults ==
    SyncReturned =>
        sync_result.total_records_processed
            = SumProcessed(sync_result.results, DOMAIN sync_result.results)

\* the same holds when no data type is named twice
C38_DistinctTypesSumUp ==
    (SyncReturned /\ Cardinality({sync.data_types[k] : k \in DOMAIN sync.data_types}) = Len(sync.data_types)) =>
        sync_result.total_records_processed
            = SumProcessed(sync_result.results, DOMAIN sync_result.results)

(***************************************************************************)
(* The sync log of MySQLLoader (trestle_etl/mysql_loader.py) and the runs  *)
(* of ETLOrchestrator (trestle_etl/main.py).  A statement on the database  *)
(* either commits or raises and leaves the table as it was.  Runs follow   *)
(* one another, each on an orchestrator of its own (run_etl_with_retry).   *)
(***************************************************************************)
MaxRuns == 3              \* at most this many runs are started

DbOutcomes == {"ok", "DatabaseError"}

\* SyncRun(sync_start=datetime.now(), status=SyncStatus.SUCCESS) with its id
SyncRun(sync_id, sync_start) ==
    [sync_id |-> sync_id, sync_start |-> sync_start, sync_end |-> Nothing,
     status |-> "success", last_sync_timestamp |-> Nothing]

\* start_sync_run: INSERT INTO etl_sync_log (sync_start, status)
start_sync_run(log, t) == Append(log, SyncRun(Len(log) + 1, t))

\* complete_sync_run on the object, before the UPDATE
completed(sync_run, status, t) ==
    [sync_run EXCEPT !.sync_end = Some(t), !.status = status]

\* complete_sync_run: UPDATE etl_sync_log SET ... WHERE id = sync_id
complete_sync_run(log, sync_run, status, t) ==
    [log EXCEPT ![sync_run.sync_id] = completed(sync_run, status, t)]

\* ORDER BY sync_end DESC: NULL ranks below every value
sync_end_rank(row) == IF row.sync_end = Nothing THEN -1 ELSE row.sync_end[1]

get_last_sync_any_status(log) ==
    {k \in 1..Len(log) :
        \A l \in 1..Len(log) : sync_end_rank(log[l]) <= sync_end_rank(log[k])}

\* get_last_successful_sync: the rows WHERE status = 'success' that come first
\* in ORDER BY sync_end DESC; LIMIT 1 takes any one of them
get_last_successful_sync(log) ==
    {k \in 1..Len(log) :
        /\ log[k].status = "success"
        /\ \A l \in 1..Len(log) :
            log[l].status = "success" => sync_end_rank(log[l]) <= sync_end_rank(log[k])}

\* last_sync.last_sync_timestamp or last_sync.sync_end
timestamp_or_end(row) ==
    IF row.last_sync_timestamp # Nothing THEN row.last_sync_timestamp ELSE row.sync_end

\* MySQLLoader.get_last_sync_timestamp: the values it can return
loader_last_sync_timestamp(log) ==
    IF get_last_successful_sync(log) = {} THEN {Nothing}
    ELSE {timestamp_or_end(log[k]) : k \in get_last_successful_sync(log)}

\* the run is over: ended is how run() left, row_status the status its row has
\* at that moment ("none" when it has no row)
RunOver(ended, row_status, log) ==
    /\ runs' = Append(runs, [ended |-> ended, row_status |-> row_status,
                             before |-> orch.before,
                             after |-> loader_last_sync_timestamp(log)])
    /\ orch' = NoRun
    /\ etl_sync_log' = log

\* the except clause of run(): complete_sync_run(FAILED) when there is a sync
\* run, any exception of it swallowed; then ETLExecutionError
run_failed(sync_run, db) ==
    IF sync_run = Nothing THEN RunOver("failed", "none", etl_sync_log)
    ELSE IF db = "ok"
    THEN RunOver("failed", "failed",
                 complete_sync_run(etl_sync_log, sync_run[1], "failed", now))
    ELSE RunOver("failed", etl_sync_log[sync_run[1].sync_id].status, etl_sync_log)

\* run() up to the batched sync: initialize_schema and start_sync_run
RunStart(dry_run, db) ==
    /\ orch.pc = "idle"
    /\ Len(runs) < MaxRuns
    /\ IF dry_run
       THEN /\ orch' = [NoRun EXCEPT !.pc = "started", !.dry_run = TRUE,
                            !.before = loader_last_sync_timestamp(etl_sync_log)]
            /\ UNCHANGED <<etl_sync_log, runs>>
       ELSE IF db = "ok"
       THEN /\ etl_sync_log' = start_sync_run(etl_sync_log, now)
            /\ orch' = [NoRun EXCEPT !.pc = "started",
                            !.sync_run = Some(SyncRun(Len(etl_sync_log) + 1, now)),
                            !.before = loader_last_sync_timestamp(etl_sync_log)]
            /\ UNCHANGED runs
       ELSE /\ runs' = Append(runs,
                [ended |-> "failed", row_status |-> "none",
                 before |-> loader_last_sync_timestamp(etl_sync_log),
                 after |-> loader_last_sync_timestamp(etl_sync_log)])
            /\ UNCHANGED <<etl_sync_log, orch>>
    /\ UNCHANGED <<client_vars, transformer_vars, sync_vars, call_vars>>

\* the batched sync and the loading of its records: the watermark is read
\* unless full_sync; outcome tells whether errors were collected or an
\* exception reached run()
RunSync(full_sync, outcome, db_failed) ==
    /\ orch.pc = "started"
    /\ IF outcome = "raised"
       THEN run_failed(orch.sync_run, db_failed)
       ELSE /\ orch' = [orch EXCEPT
                           !.pc = "synced",
                           !.errors = (outcome = "errors"),
                           !.read = IF full_sync THEN {}
                                    ELSE loader_last_sync_timestamp(etl_sync_log)]
            /\ UNCHANGED <<etl_sync_log, runs>>
    /\ UNCHANGED <<client_vars, transformer_vars, sync_vars, call_vars>>

\* SyncStatus.SUCCESS if not results['errors'] else SyncStatus.PARTIAL
final_status(errors) == IF errors THEN "partial" ELSE "success"

\* the end of run(): last_sync_timestamp = datetime.now(), complete_sync_run
RunComplete(db, db_failed) ==
    /\ orch.pc = "synced"
    /\ IF orch.sync_run = Nothing \/ orch.dry_run
       THEN RunOver(final_status(orch.errors), "none", etl_sync_log)
       ELSE IF db = "ok"
       THEN RunOver(final_status(orch.errors), final_status(orch.errors),
                    complete_sync_run(etl_sync_log,
                        [orch.sync_run[1] EXCEPT !.last_sync_timestamp = Some(now)],
                        final_status(orch.errors), now))
       ELSE run_failed(Some(completed(
                           [orch.sync_run[1] EXCEPT !.last_sync_timestamp = Some(now)],
                           final_status(orch.errors), now)),
                       db_failed)
    /\ UNCHANGED <<client_vars, transformer_vars, sync_vars, call_vars>>

RunStartCall == \E dry_run \in BOOLEAN, db \in DbOutcomes : RunStart(dry_run, db)
RunSyncCall ==
    \E full_sync \in BOOLEAN, outcome \in {"clean", "errors", "raised"},
       db_failed \in DbOutcomes : RunSync(full_sync, outcome, db_failed)
RunCompleteCall == \E db \in DbOutcomes, db_failed \in DbOutcomes : RunComplete(db, db_failed)

NextRun == Tick \/ RunStartCall \/ RunSyncCall \/ RunCompleteCall

SpecRun == InitBatch /\ [][NextRun]_vars

(***************************************************************************)
(* Claims about the watermark (SpecRun)                                    *)
(***************************************************************************)
\* watermark a is not later than watermark b, None being the earliest
NotLater(a, b) == a = Nothing \/ (b # Nothing /\ a[1] <= b[1])

\* C18: the watermark returned by get_last_sync_timestamp never decreases
\* across successive completed runs and is unchanged by a run that ends failed
\* or partial: only a run completed with status success can advance it.
C18_WatermarkMonotone ==
    /\ \A k \in 1..Len(runs) :
        /\ \A a \in runs[k].before, b \in runs[k].after : NotLater(a, b)
        /\ runs[k].row_status # "success" => runs[k].after = runs[k].before
        /\ runs[k].ended # "success" => runs[k].after = runs[k].before
        /\ k > 1 => runs[k].before = runs[k - 1].after
    /\ orch.pc # "idle" => loader_last_sync_timestamp(etl_sync_log) = orch.before

C18_Witness ==
    /\ Len(runs) = 3
    /\ runs[1].ended = "success" /\ runs[1].after = {Some(TickSeconds)}
    /\ runs[2].ended = "failed" /\ runs[2].row_status = "failed"
    /\ runs[2].after = {Some(TickSeconds)}
    /\ etl_sync_log[2].sync_end = Some(2 * TickSeconds)
    /\ runs[3].ended = "success" /\ runs[3].after = {Some(3 * TickSeconds)}
====
